---- MODULE Spec2Model ----
(***************************************************************************)
(* Dataflow evaluation engine of AgentNodes: the execution-node actor      *)
(* (eval/execution_node.rs) and the evaluator's output driver              *)
(* (eval/evaluator.rs).  Every lock acquisition of the source is one       *)
(* step: tasks run on a multi-threaded runtime (main.rs, #[tokio::main]),  *)
(* so steps of different tasks interleave freely between two lock          *)
(* acquisitions.                                                           *)
(*                                                                         *)
(* Ports are numbered from 1 here (from 0 in the source).  Task 0 is the   *)
(* caller of Evaluator::get_outputs; task n > 0 is the task of node n.     *)
(***************************************************************************)
EXTENDS Integers, Sequences, FiniteSets, TLC

(* ---------------------------------------------------------------------- *)
(* Bounds                                                                  *)
(* ---------------------------------------------------------------------- *)
MaxOps == 2        \* get_outputs and close() calls made on the instance
MaxEvals == 2      \* evaluations of one Complex node
MaxTrue == 1       \* times a Variable(Get) node yields Boolean(true)
MaxStream == 4     \* unread bytes of a handle
MaxPattern == 2    \* bytes of a read_until pattern
MaxWeak == 3       \* broadcasts of the source of a weak edge, and gathers over it
IntBits == 4       \* width of the Integer type, in place of the 64 bits of i64

(* ---------------------------------------------------------------------- *)
(* Graphs: the node maps an evaluator can be loaded with                   *)
(* ---------------------------------------------------------------------- *)
Edge(s, p, st) == [src |-> s, port |-> p, strong |-> st]

\* Io(ConsoleInput) -> End, one strong edge
PairGraph ==
  [n        |-> 2,
   inputs   |-> << <<>>, <<Edge(1, 1, TRUE)>> >>,
   nports   |-> <<1, 1>>,
   kind     |-> <<"Input", "End">>,
   end_node |-> 2]

\* IsNone <-weak- End, End <-strong- IsNone: a cycle closed by a weak edge
FeedbackGraph ==
  [n        |-> 2,
   inputs   |-> << <<Edge(2, 1, FALSE)>>, <<Edge(1, 1, TRUE)>> >>,
   nports   |-> <<1, 1>>,
   kind     |-> <<"IsNone", "End">>,
   end_node |-> 2]

\* the end node feeds a dangling Cast: two tasks ask the same node
SinkGraph ==
  [n        |-> 2,
   inputs   |-> << <<>>, <<Edge(1, 1, TRUE)>> >>,
   nports   |-> <<1, 1>>,
   kind     |-> <<"Value", "Cast">>,
   end_node |-> 1]

\* an End node with two output ports
TwoPortGraph ==
  [n        |-> 2,
   inputs   |-> << <<>>, <<Edge(1, 1, TRUE), Edge(1, 1, TRUE)>> >>,
   nports   |-> <<1, 2>>,
   kind     |-> <<"Value", "End">>,
   end_node |-> 2]

\* the end-node id of the specification names no instance
NoEndGraph ==
  [n        |-> 1,
   inputs   |-> << <<>> >>,
   nports   |-> <<1>>,
   kind     |-> <<"Value">>,
   end_node |-> 2]

Graphs == <<PairGraph, FeedbackGraph, SinkGraph, TwoPortGraph, NoEndGraph>>

\* the subgraph behind a Complex node: Start -> End, one strong edge
ChildGraph ==
  [n        |-> 2,
   inputs   |-> << <<>>, <<Edge(1, 1, TRUE)>> >>,
   nports   |-> <<1, 1>>,
   kind     |-> <<"Start", "End">>,
   end_node |-> 2]

\* Variable(Get) -strong-> If, whose end-edge is a Value node
IfGraph ==
  [n        |-> 3,
   inputs   |-> << <<>>, <<Edge(1, 1, TRUE)>>, <<>> >>,
   nports   |-> <<1, 1, 1>>,
   kind     |-> <<"Get", "If", "Value">>,
   edge     |-> <<0, 3, 0>>,
   end_node |-> 2]

\* Variable(Get) -strong-> While, whose end-edge is a node without outputs
WhileGraph ==
  [n        |-> 3,
   inputs   |-> << <<>>, <<Edge(1, 1, TRUE)>>, <<>> >>,
   nports   |-> <<1, 1, 0>>,
   kind     |-> <<"Get", "While", "Value">>,
   edge     |-> <<0, 3, 0>>,
   end_node |-> 2]

\* Variable(Get) -weak-> WaitForInit, whose init-edge is a Value node
InitGraph ==
  [n        |-> 3,
   inputs   |-> << <<>>, <<Edge(1, 1, FALSE)>>, <<>> >>,
   nports   |-> <<1, 1, 1>>,
   kind     |-> <<"Get", "WaitForInit", "Value">>,
   edge     |-> <<0, 3, 0>>,
   end_node |-> 2]

\* Value -> BinOp with one input edge; `both`: with two
BinOpGraph(both) ==
  [n        |-> 2,
   inputs   |-> << <<>>, IF both THEN <<Edge(1, 1, TRUE), Edge(1, 1, TRUE)>>
                                 ELSE <<Edge(1, 1, TRUE)>> >>,
   nports   |-> <<1, 1>>,
   kind     |-> <<"Value", "BinOp">>,
   end_node |-> 2]

\* a Value end node and a dangling Variable(Set) without input edge; `one`:
\* with one input edge
SetGraph(one) ==
  [n        |-> 2,
   inputs   |-> << <<>>, IF one THEN <<Edge(1, 1, TRUE)>> ELSE <<>> >>,
   nports   |-> <<1, 0>>,
   kind     |-> <<"Value", "Set">>,
   end_node |-> 1]

ArityGraphs == <<BinOpGraph(FALSE), BinOpGraph(TRUE), SetGraph(FALSE), SetGraph(TRUE)>>
SubGraphs == ArityGraphs \o <<ChildGraph, IfGraph, WhileGraph, InitGraph>>
AllGraphs == Graphs \o SubGraphs
ChildIx == Len(Graphs) + Len(ArityGraphs) + 1

MaxNodes == Len(AllGraphs[Len(AllGraphs)].inputs)  \* no graph has more nodes than the last
NodeIds == 1..MaxNodes
Tasks == 0..MaxNodes
NodeState == {"Processing", "Waiting", "Closed"}

VARIABLES
  graph,         \* index into Graphs of the loaded specification
  state,         \* ExecutionNode.state
  permit,        \* ExecutionNode.trigger: permits stored in the Notify
  outputs,       \* ExecutionNode.outputs: per port, the pending senders
  weak_listens,  \* ExecutionNode.weak_listens: per input edge, 0 or a channel
  chan,          \* per task, the oneshot channels it created, oldest first
  pc,            \* position of each task
  tp,            \* position of each task inside trigger_processing
  tgt,           \* node on which the task runs trigger_processing
  idx,           \* node task: input edge being gathered / port being drained
  ins,           \* node task: `inputs` of process()
  held,          \* task: its channel bound to `channel`, its channel being awaited
  outv,          \* node task: `res` of process()
  res,           \* node task: value returned by process()
  credit,        \* per node: Waiting -> Processing transitions made by
                 \* trigger_processing, minus evaluation cycles begun
  danglesLeft,   \* get_outputs: dangling nodes not yet triggered
  out,           \* get_outputs: `out`
  ret,           \* get_outputs: last value returned
  calls,         \* get_outputs calls started
  closer,        \* external close(): node and port being drained, or idle
  closes,        \* external close() calls started
  closedExt,     \* nodes on which an external close() has returned
  afterClose,    \* the current get_outputs call began after close() had
                 \* returned on a node strongly upstream of the end node
  variables,     \* Evaluator.variables of each instance: name -> value
  lastSet,       \* per instance and name, the value of the last completed Set
  got,           \* the last Variable(Get): instance, name, value returned and
                 \* the value of the last completed Set at that moment
  ecache,        \* Evaluator.evaluator_cache of each scope: path -> template
  complex_nodes, \* Evaluator.complex_nodes: Complex node id -> child instance
  cx,            \* per Complex node: position inside NodeType::evaluate
  made,          \* per Complex node: children instantiated for it
  batches,       \* per Complex node: input batches sent to its children
  used,          \* per Complex node: the child whose get_outputs each
                 \* evaluation awaited, oldest first
  inputq,        \* Evaluator.inputs: the batches sent and not yet received
  sent,          \* batches sent to the instance by send_inputs
  closed,        \* Evaluator.closed
  sup,           \* position of the task running task_listen
  wrap,          \* per node: the JoinSet task that awaits the node's JoinHandle
  ctl,           \* per node: stored_value, and for a control-flow node its
                 \* position inside eval_control
  reg,           \* Evaluator.io_registry and agent_registry of each scope, the
                 \* Open and Create nodes, and the last operation on a handle
  ld,            \* a specification file, the template Evaluator::new built
                 \* from it and the instances made of the template
  call           \* one operation evaluated on its own: inputs and result

\* the evaluator's own maps, which no step of an execution node touches
varx == <<variables, lastSet, got>>
cplx == <<ecache, complex_nodes, cx, made, batches, used>>
chld == <<inputq, sent>>
supx == <<closed, sup, wrap>>
ext == <<varx, cplx, chld, supx, ctl, reg, ld, call>>

\* the execution nodes, their tasks and the calls made on them
core == <<graph, state, permit, outputs, weak_listens, chan, pc, tp, tgt, idx, ins,
          held, outv, res, credit, danglesLeft, out, ret, calls, closer, closes,
          closedExt, afterClose>>

\* what the operations on one of the evaluator's maps leave alone
exceptVarx == <<core, cplx, chld, supx, ctl, reg, ld, call>>
exceptCplx == <<core, varx, chld, supx, ctl, reg, ld, call>>
exceptChld == <<varx, cplx, supx, ctl, reg, ld, call>>
exceptSupx == <<core, varx, cplx, chld, ctl, reg, ld, call>>
exceptCtl == <<varx, cplx, chld, supx, reg, ld, call>>
exceptReg == <<core, varx, cplx, chld, supx, ctl, ld, call>>
exceptLd == <<core, varx, cplx, chld, supx, ctl, reg, call>>
exceptCall == <<core, varx, cplx, chld, supx, ctl, reg, ld>>

vars == <<graph, state, permit, outputs, weak_listens, chan, pc, tp, tgt, idx, ins,
          held, outv, res, credit, danglesLeft, out, ret, calls, closer, closes,
          closedExt, afterClose, ext>>

G == AllGraphs[graph]
Nodes == 1..G.n
Inputs(n) == G.inputs[n]
NPorts(n) == G.nports[n]

Min(a, b) == IF a < b THEN a ELSE b

\* no id is dangling, whatever the edges
DanglingNone(g) == {}

\* Evaluator::new: ids of the specification that no input edge names as source
Dangling(g) ==
  LET non_dangling == UNION {{g.inputs[m][i].src : i \in 1..Len(g.inputs[m])} : m \in 1..g.n}
  IN  (1..g.n) \ non_dangling

\* nodes from which the end node is reached through strong edges only
RECURSIVE StrongReach(_, _, _)
StrongReach(g, seen, k) ==
  IF k = 0 THEN seen
  ELSE StrongReach(g, seen \cup {g.inputs[m][i].src :
                                   <<m, i>> \in {x \in seen \X (1..2) :
                                                   /\ x[2] <= Len(g.inputs[x[1]])
                                                   /\ g.inputs[x[1]][x[2]].strong}},
                   k - 1)

StrongUp(g) ==
  IF g.end_node \in 1..g.n THEN StrongReach(g, {g.end_node}, g.n) \ {g.end_node} ELSE {}

(* ---------------------------------------------------------------------- *)
(* Values and oneshot channels                                             *)
(* ---------------------------------------------------------------------- *)
\* Option<DataValue>: NoValue is Option::None, every other record is Some(v)
NoValue == [ty |-> "Absent", val |-> 0]
IntegerV(k) == [ty |-> "Integer", val |-> k]
BooleanV(b) == [ty |-> "Boolean", val |-> IF b THEN 1 ELSE 0]
StringV(k) == [ty |-> "String", val |-> k]
NoneV == [ty |-> "None", val |-> 0]          \* DataValue::None

\* evaluator instances, variable names and the values stored under them
Instances == {"i1", "i2"}
Names == {"a", "b"}
Unset == [ty |-> "Unset", val |-> 0]         \* the name is not a key of the map
NoGet == [inst |-> "", name |-> "", val |-> Unset, last |-> Unset]

\* Scopes of evaluators: scope 1 is the root instance, scopes 2 and 3 are the
\* instances of two subgraphs of it and scope 4 is the instance of a subgraph
\* of scope 2 (Evaluator.parent); 0 stands for `parent: None`
Scopes == 1..4
parent(s) == <<0, 1, 1, 2>>[s]

\* the scope itself and the scopes reached from it along `parent`
RECURSIVE Ancestors(_)
Ancestors(s) == IF s = 0 THEN {} ELSE {s} \cup Ancestors(parent(s))
Paths == {"p"}
\* the Complex nodes: two of scope 2 and one of scope 3, a sibling of scope 2
\* read from the same directory; all name the same subgraph file
CNode == [A |-> [scope |-> 2, path |-> "p"], B |-> [scope |-> 2, path |-> "p"],
          C |-> [scope |-> 3, path |-> "p"]]
CNodes == DOMAIN CNode
NoEval == [by |-> "", k |-> 0]             \* Option::None of Arc<Evaluator>
NoChild == [of |-> "", k |-> 0]            \* no instance
IdleCx == [pc |-> "idle", lvl |-> 0, e |-> NoEval, child |-> NoChild,
           weak |-> FALSE, evals |-> 0, added |-> FALSE, res |-> "none"]

\* tokio::sync::oneshot::channel(): the sender goes to a broadcast slot, the
\* receiver stays with the listener.  msg: "empty", "some" (Some(v)) or "none".
\* sent counts the messages delivered to the receiver; late records that the
\* channel was registered while the node was Closed.
NewChannel(n, p, how) ==
  [node |-> n, port |-> p, msg |-> "empty", v |-> NoValue, rx |-> TRUE, sent |-> 0,
   how |-> how, late |-> state[n] = "Closed"]

InSeq(x, s) == \E i \in 1..Len(s) : s[i] = x

\* A sender in a broadcast slot is named <<t, k>>: the k-th channel of task t.
\* Sender::send on every sender of `slot`: the message reaches the receiver
\* unless the receiver was dropped (the error of send is ignored by the callers)
SendAll(ch, slot, m, v) ==
  [t \in DOMAIN ch |->
     [k \in DOMAIN ch[t] |->
        IF InSeq(<<t, k>>, slot) /\ ch[t][k].rx
          THEN [ch[t][k] EXCEPT !.msg = m, !.v = v, !.sent = @ + 1]
          ELSE ch[t][k]]]

\* A channel whose receiver is gone (dropped, or consumed by an await): no
\* send can reach it any more.  Its record is forgotten, and its place k is
\* used again once its sender has left the broadcast slots.
DeadChannel ==
  [node |-> 0, port |-> 0, msg |-> "empty", v |-> NoValue, rx |-> FALSE, sent |-> 0,
   how |-> "none", late |-> FALSE]

InSlots(t, k) == \E n \in NodeIds, p \in 1..2 : InSeq(<<t, k>>, outputs[n][p])

FreshIndex(t) ==
  CHOOSE k \in 1..(Len(chan[t]) + 1) :
    /\ k = Len(chan[t]) + 1 \/ (chan[t][k] = DeadChannel /\ ~InSlots(t, k))
    /\ \A j \in 1..(k - 1) : ~(chan[t][j] = DeadChannel /\ ~InSlots(t, j))

Put(ch, t, k, c) ==
  IF k = Len(ch[t]) + 1 THEN [ch EXCEPT ![t] = Append(@, c)] ELSE [ch EXCEPT ![t][k] = c]

\* task t drops, or consumes, the Receiver of its k-th channel
DropRx(ch, t, k) == IF k = 0 THEN ch ELSE [ch EXCEPT ![t][k] = DeadChannel]

\* Receiver::is_empty on the k-th channel of task t
is_empty(t, k) == chan[t][k].msg = "empty"

\* the Option<DataValue> task t reads from its k-th channel, which holds a message
Received(t, k) == IF chan[t][k].msg = "some" THEN chan[t][k].v ELSE NoValue

NoHeld == [ch |-> 0, aw |-> 0]
IdleCloser == [node |-> 0, port |-> 0]
NoResult == [ok |-> TRUE, vals |-> <<>>]

\* Evaluator::instantiate of one of the specifications gs: fresh nodes in
\* Waiting, one task spawned per node
CoreInit(gs) ==
  /\ graph \in gs
  /\ state = [n \in NodeIds |-> "Waiting"]
  /\ permit = [n \in NodeIds |-> 0]
  /\ outputs = [n \in NodeIds |-> [p \in 1..2 |-> <<>>]]
  /\ weak_listens = [n \in NodeIds |-> [i \in 1..2 |-> 0]]
  /\ chan = [t \in Tasks |-> <<>>]
  /\ pc = [t \in Tasks |-> IF t = 0 THEN "idle"
                           ELSE IF t <= AllGraphs[graph].n THEN "loop" ELSE "absent"]
  /\ tp = [t \in Tasks |-> "idle"]
  /\ tgt = [t \in Tasks |-> 0]
  /\ idx = [t \in Tasks |-> 1]
  /\ ins = [n \in NodeIds |-> <<>>]
  /\ held = [t \in Tasks |-> NoHeld]
  /\ outv = [n \in NodeIds |-> NoResult]
  /\ res = [n \in NodeIds |-> "running"]
  /\ credit = [n \in NodeIds |-> 0]
  /\ danglesLeft = {}
  /\ out = <<>>
  /\ ret = "none"
  /\ calls = 0
  /\ closer = IdleCloser
  /\ closes = 0
  /\ closedExt = {}
  /\ afterClose = FALSE

\* AsyncClone for Evaluator: `variables: RwLock::new(HashMap::new())`
VarxInit ==
  /\ variables = [i \in Instances |-> [nm \in Names |-> Unset]]
  /\ lastSet = [i \in Instances |-> [nm \in Names |-> NoneV]]
  /\ got = NoGet

\* AsyncClone for Evaluator: `complex_nodes: RwLock::new(HashMap::new())`, and
\* the cache of a scope that has loaded no subgraph yet
CplxInit ==
  /\ ecache = [s \in Scopes |-> [p \in Paths |-> NoEval]]
  /\ complex_nodes = [n \in CNodes |-> NoChild]
  /\ cx = [n \in CNodes |-> IdleCx]
  /\ made = [n \in CNodes |-> 0]
  /\ batches = [n \in CNodes |-> 0]
  /\ used = [n \in CNodes |-> <<>>]

\* AsyncClone for Evaluator: `tokio::sync::mpsc::channel(1024)`
ChldInit == inputq = <<>> /\ sent = 0

\* instantiate: `closed: AtomicBool::new(false)`, task_listen spawned with
\* the JoinHandle of every node task, each handed to `js.spawn`
SupxInit ==
  /\ closed = FALSE
  /\ sup = "loop"
  /\ wrap = [n \in NodeIds |-> IF n <= AllGraphs[graph].n THEN "awaiting" ELSE "none"]

\* ExecutionNode::new: `stored_value: RwLock::new(None)`.  at: position in
\* eval_control; cond: the condition of the invocation; vals: what join_all
\* returned; asked: listen_all was called on the node; fresh: the node has
\* completed an evaluation since listen_all was last called on it; trues:
\* times the node has yielded Boolean(true)
CtlIdle ==
  [stored |-> FALSE, at |-> "begin", cond |-> "none", vals |-> <<>>,
   asked |-> FALSE, fresh |-> FALSE, trues |-> 0]

\* the nodes that open a handle or create an agent, and the scope each runs in
ONode == [O1 |-> [scope |-> 1, kind |-> "Open"], O4 |-> [scope |-> 4, kind |-> "Open"],
          K2 |-> [scope |-> 2, kind |-> "Create"]]
ONodes == DOMAIN ONode

NoRes == [ok |-> FALSE, id |-> 0, err |-> "none"]
NoOp == [kind |-> "none", s |-> 0, id |-> 0, found |-> 0]

\* AsyncClone for Evaluator: `io_registry` and `agent_registry` start empty;
\* ExecutionNode::clone: `stored_value: RwLock::new(None)`.  next: the Uuid the
\* next registration draws; at, evals, w, last: position of the node task,
\* evaluations begun, whether the last one had a None input, and its result
RegInit ==
  reg = [io |-> [s \in Scopes |-> {}], agents |-> [s \in Scopes |-> {}], next |-> 1,
         stored |-> [n \in ONodes |-> 0], at |-> [n \in ONodes |-> "idle"],
         evals |-> [n \in ONodes |-> 0], w |-> [n \in ONodes |-> FALSE],
         last |-> [n \in ONodes |-> NoRes], ops |-> 0, op |-> NoOp]

\* no specification file was read and no operation is evaluated on its own
NoLoad == [stage |-> "none"]
NoCall == [stage |-> "none"]

FeatInit ==
  /\ VarxInit /\ CplxInit /\ ChldInit /\ SupxInit
  /\ ctl = [n \in NodeIds |-> CtlIdle]
  /\ RegInit

ExtInit == FeatInit /\ ld = NoLoad /\ call = NoCall

Init == CoreInit(1..Len(Graphs)) /\ ExtInit

(* ---------------------------------------------------------------------- *)
(* ExecutionNode::trigger_processing, run by task t on node tgt[t]         *)
(* ---------------------------------------------------------------------- *)
\* Notify::notify_one: stores a permit unless one is already stored
notify_one(k) == IF k = 0 THEN 1 ELSE k

\* the test of trigger_processing on the state it read
trigger_test(s) == s = "Waiting"

\* `if *self.state.read().await == NodeState::Waiting`
TriggerRead(t) ==
  /\ tp[t] = "read"
  /\ tp' = [tp EXCEPT ![t] = IF trigger_test(state[tgt[t]]) THEN "notify" ELSE "idle"]
  /\ tgt' = [tgt EXCEPT ![t] = IF trigger_test(state[tgt[t]]) THEN @ ELSE 0]
  /\ UNCHANGED <<graph, state, permit, outputs, weak_listens, chan, pc, idx, ins,
                 held, outv, res, credit, danglesLeft, out, ret, calls, closer,
                 closes,
                 closedExt, afterClose, ext>>

\* `self.trigger.notify_one()`
TriggerNotify(t) ==
  /\ tp[t] = "notify"
  /\ permit' = [permit EXCEPT ![tgt[t]] = notify_one(@)]
  /\ tp' = [tp EXCEPT ![t] = "write"]
  /\ UNCHANGED <<graph, state, outputs, weak_listens, chan, pc, tgt, idx, ins,
                 held, outv, res, credit, danglesLeft, out, ret, calls, closer,
                 closes,
                 closedExt, afterClose, ext>>

\* `*self.state.write().await = NodeState::Processing`
TriggerWrite(t) ==
  /\ tp[t] = "write"
  /\ state' = [state EXCEPT ![tgt[t]] = "Processing"]
  /\ credit' = [credit EXCEPT ![tgt[t]] = IF state[tgt[t]] = "Waiting" THEN @ + 1 ELSE @]
  /\ tp' = [tp EXCEPT ![t] = "idle"]
  /\ tgt' = [tgt EXCEPT ![t] = 0]
  /\ UNCHANGED <<graph, permit, outputs, weak_listens, chan, pc, idx, ins,
                 held, outv, res, danglesLeft, out, ret, calls, closer, closes,
                 closedExt, afterClose, ext>>

(* ---------------------------------------------------------------------- *)
(* ExecutionNode::listen, weak_listen and broadcast_closed                 *)
(* ---------------------------------------------------------------------- *)
\* listen / weak_listen: `self.outputs[port].write().await.push(send)`
Register(t, n, p, how) ==
  /\ chan' = Put(chan, t, FreshIndex(t), NewChannel(n, p, how))
  /\ outputs' = [outputs EXCEPT ![n][p] = Append(@, <<t, FreshIndex(t)>>)]

\* a weak_listen that triggers as listen does
TriggerAfterAlways(how) == "read"

\* listen(port) goes on with trigger_processing, weak_listen(port) does not
TriggerAfter(how) == IF how = "listen" THEN "read" ELSE "idle"

\* a broadcast that sends None and leaves the senders in the slot
BroadcastSlotKeeping(n, p) ==
  /\ chan' = SendAll(chan, outputs[n][p], "none", NoValue)
  /\ outputs' = outputs

\* broadcast_closed, one output slot: `guard.drain(..).for_each(|s| s.send(None))`
BroadcastSlot(n, p) ==
  /\ chan' = SendAll(chan, outputs[n][p], "none", NoValue)
  /\ outputs' = [outputs EXCEPT ![n][p] = <<>>]

\* the state broadcast_closed leaves the node in
closed_state == "Closed"

(* ---------------------------------------------------------------------- *)
(* ExecutionNode::process, the task of node n                              *)
(* ---------------------------------------------------------------------- *)
NodeStep(n) == n \in Nodes /\ tp[n] = "idle"

\* where process() goes after the input edge idx[n]
AfterEdge(n) == IF idx[n] < Len(Inputs(n)) THEN "chk" ELSE "setwait"

\* where process() starts broadcast_closed
BroadcastStart(n) == IF NPorts(n) = 0 THEN "bcstate" ELSE "bc"

\* `while *(self.state.read().await) != NodeState::Closed`
LoopTest(n) ==
  /\ NodeStep(n) /\ pc[n] = "loop"
  /\ IF state[n] # "Closed"
       THEN pc' = [pc EXCEPT ![n] = "park"] /\ res' = res
       ELSE pc' = [pc EXCEPT ![n] = "done"] /\ res' = [res EXCEPT ![n] = "ok"]
  /\ UNCHANGED <<graph, state, permit, outputs, weak_listens, chan, tp, tgt, idx, ins,
                 held, outv, credit, danglesLeft, out, ret, calls, closer, closes,
                 closedExt, afterClose, ext>>

\* `self.trigger.notified().await`, then `let mut inputs = Vec::with_capacity(..)`
AwaitTrigger(n) ==
  /\ NodeStep(n) /\ pc[n] = "park"
  /\ permit[n] > 0
  /\ permit' = [permit EXCEPT ![n] = @ - 1]
  /\ credit' = [credit EXCEPT ![n] = @ - 1]
  /\ ins' = [ins EXCEPT ![n] = <<>>]
  /\ idx' = [idx EXCEPT ![n] = 1]
  /\ pc' = [pc EXCEPT ![n] = IF Len(Inputs(n)) = 0 THEN "setwait" ELSE "chk"]
  /\ UNCHANGED <<graph, state, outputs, weak_listens, chan, tp, tgt, held, outv, res,
                 danglesLeft, out, ret, calls, closer, closes,
                 closedExt, afterClose, ext>>

\* 2a_1: `if *node.state.read().await == NodeState::Closed`
CheckSource(n) ==
  /\ NodeStep(n) /\ pc[n] = "chk"
  /\ LET e == Inputs(n)[idx[n]] IN
       IF state[e.src] = "Closed"
         THEN /\ pc' = [pc EXCEPT ![n] = BroadcastStart(n)]
              /\ idx' = [idx EXCEPT ![n] = 1]
              /\ outv' = [outv EXCEPT ![n] = [ok |-> TRUE, vals |-> <<>>]]
         ELSE /\ pc' = [pc EXCEPT ![n] = "getch"]
              /\ UNCHANGED <<idx, outv>>
  /\ UNCHANGED <<graph, state, permit, outputs, weak_listens, chan, tp, tgt, ins,
                 held, res, credit, danglesLeft, out, ret, calls, closer, closes,
                 closedExt, afterClose, ext>>

\* get_channel: listen on a strong edge; on a weak edge the cached receiver is
\* taken out of weak_listens and weak_listen is called in any case (the
\* argument of unwrap_or is evaluated first), its receiver being dropped at
\* once when a cached one exists
GetChannel(n) ==
  /\ NodeStep(n) /\ pc[n] = "getch"
  /\ LET e == Inputs(n)[idx[n]]
         c == FreshIndex(n)
         cached == weak_listens[n][idx[n]]
     IN
       IF e.port > NPorts(e.src)
         THEN \* PortOutOfBounds leaves process() through `?`
              /\ pc' = [pc EXCEPT ![n] = "done"]
              /\ res' = [res EXCEPT ![n] = "err"]
              /\ UNCHANGED <<chan, outputs, held, tp, tgt, weak_listens>>
         ELSE IF e.strong
           THEN /\ Register(n, e.src, e.port, "listen")
                /\ held' = [held EXCEPT ![n] = [ch |-> c, aw |-> 0]]
                /\ tp' = [tp EXCEPT ![n] = TriggerAfter("listen")]
                /\ tgt' = [tgt EXCEPT ![n] = e.src]
                /\ pc' = [pc EXCEPT ![n] = "listen2"]
                /\ UNCHANGED <<weak_listens, res>>
           ELSE /\ outputs' = [outputs EXCEPT ![e.src][e.port] = Append(@, <<n, c>>)]
                /\ chan' = Put(chan, n, c, IF cached = 0
                                              THEN NewChannel(e.src, e.port, "weak_listen")
                                              ELSE DeadChannel)
                /\ held' = [held EXCEPT ![n] =
                              [ch |-> IF cached = 0 THEN c ELSE cached, aw |-> 0]]
                /\ weak_listens' = [weak_listens EXCEPT ![n][idx[n]] = 0]
                /\ tp' = [tp EXCEPT ![n] = TriggerAfter("weak_listen")]
                /\ tgt' = [tgt EXCEPT ![n] = IF TriggerAfter("weak_listen") = "idle"
                                             THEN 0 ELSE e.src]
                /\ pc' = [pc EXCEPT ![n] = "weakchk"]
                /\ res' = res
  /\ UNCHANGED <<graph, state, permit, idx, ins, outv, credit, danglesLeft, out,
                 ret, calls, closer, closes,
                 closedExt, afterClose, ext>>

\* strong edge: `node.listen(port.clone()).await?`, a second listener
ListenAgain(n) ==
  /\ NodeStep(n) /\ pc[n] = "listen2"
  /\ LET e == Inputs(n)[idx[n]] IN
       /\ Register(n, e.src, e.port, "listen")
       /\ held' = [held EXCEPT ![n].aw = FreshIndex(n)]
       /\ tp' = [tp EXCEPT ![n] = TriggerAfter("listen")]
       /\ tgt' = [tgt EXCEPT ![n] = e.src]
       /\ pc' = [pc EXCEPT ![n] = "recv"]
  /\ UNCHANGED <<graph, state, permit, weak_listens, idx, ins, outv, res, credit,
                 danglesLeft, out, ret, calls, closer, closes,
                 closedExt, afterClose, ext>>

\* strong edge: `.await?` on the second listener, then 2a_2 or inputs.push(i);
\* `channel` is dropped at the end of the iteration
AwaitStrong(n) ==
  /\ NodeStep(n) /\ pc[n] = "recv"
  /\ ~is_empty(n, held[n].aw)
  /\ LET i == Received(n, held[n].aw) IN
       IF i = NoValue
         THEN /\ pc' = [pc EXCEPT ![n] = BroadcastStart(n)]
              /\ idx' = [idx EXCEPT ![n] = 1]
              /\ outv' = [outv EXCEPT ![n] = [ok |-> TRUE, vals |-> <<>>]]
              /\ ins' = ins
         ELSE /\ ins' = [ins EXCEPT ![n] = Append(@, i)]
              /\ pc' = [pc EXCEPT ![n] = AfterEdge(n)]
              /\ idx' = [idx EXCEPT ![n] = IF @ < Len(Inputs(n)) THEN @ + 1 ELSE 1]
              /\ outv' = outv
  /\ chan' = DropRx(DropRx(chan, n, held[n].ch), n, held[n].aw)
  /\ held' = [held EXCEPT ![n] = NoHeld]
  /\ UNCHANGED <<graph, state, permit, outputs, weak_listens, tp, tgt, res, credit,
                 danglesLeft, out, ret, calls, closer, closes,
                 closedExt, afterClose, ext>>

\* weak edge: the test that sends the gather to `channel.await?`
weak_ready(t, k) == ~is_empty(t, k)

\* weak edge: `if channel.is_empty()` put the receiver back and take None,
\* else `channel.await?`, which waits for a message
GatherWeak(n) ==
  /\ NodeStep(n) /\ pc[n] = "weakchk"
  /\ LET c == held[n].ch IN
       IF ~weak_ready(n, c)
         THEN /\ weak_listens' = [weak_listens EXCEPT ![n][idx[n]] = c]
              /\ ins' = [ins EXCEPT ![n] = Append(@, NoValue)]
              /\ chan' = chan
         ELSE /\ chan[n][c].msg # "empty"
              /\ weak_listens' = weak_listens
              /\ ins' = [ins EXCEPT ![n] = Append(@, Received(n, c))]
              /\ chan' = DropRx(chan, n, c)
  /\ held' = [held EXCEPT ![n] = NoHeld]
  /\ pc' = [pc EXCEPT ![n] = AfterEdge(n)]
  /\ idx' = [idx EXCEPT ![n] = IF @ < Len(Inputs(n)) THEN @ + 1 ELSE 1]
  /\ UNCHANGED <<graph, state, permit, outputs, tp, tgt, outv, res, credit,
                 danglesLeft, out, ret, calls, closer, closes,
                 closedExt, afterClose, ext>>

\* step 5: `*self.state.write().await = NodeState::Waiting`
SetWaiting(n) ==
  /\ NodeStep(n) /\ pc[n] = "setwait"
  /\ state' = [state EXCEPT ![n] = "Waiting"]
  /\ pc' = [pc EXCEPT ![n] = "eval"]
  /\ UNCHANGED <<graph, permit, outputs, weak_listens, chan, tp, tgt, idx, ins, held,
                 outv, res, credit, danglesLeft, out, ret, calls, closer, closes,
                 closedExt, afterClose, ext>>

(* ---------------------------------------------------------------------- *)
(* NodeType::evaluate (language/nodes.rs), by kind of operation            *)
(* ---------------------------------------------------------------------- *)
Ok(vs) == [ok |-> TRUE, vals |-> vs]
Err == [ok |-> FALSE, vals |-> <<>>]

\* `inputs.into_iter().collect::<Option<Vec<DataValue>>>()` is None
HasNone(is) == \E i \in 1..Len(is) : is[i] = NoValue

\* the results evaluate can return for node n on inputs `is`:
\*   Value   Ok(vec![data_value])
\*   Input   Io(ConsoleInput): the line read, or an IoError
\*   Cast    an error on a missing or None first input, else the value cast
\*           or a CastError
\*   End     the inputs, ComplexWeakInput on a None input
\*   IsNone  IncorrectInputCount unless one input, else Boolean(is_none)
\*   Get     Variable(Get) of a name under which a Boolean is stored
AtomicKinds == {"Value", "Input", "Cast", "End", "IsNone", "Get"}

Evaluations(n, is) ==
  CASE G.kind[n] = "Value"  -> {Ok(<<IntegerV(1)>>)}
    [] G.kind[n] = "Input"  -> {Ok(<<StringV(1)>>), Err}
    [] G.kind[n] = "Cast"   -> IF Len(is) = 0 \/ is[1] = NoValue THEN {Err}
                               ELSE {Ok(<<IntegerV(1)>>), Err}
    [] G.kind[n] = "End"    -> IF HasNone(is) THEN {Err} ELSE {Ok(is)}
    [] G.kind[n] = "IsNone" -> IF Len(is) # 1 THEN {Err}
                               ELSE {Ok(<<BooleanV(is[1] = NoValue)>>)}
    [] G.kind[n] = "Get"    -> {Ok(<<BooleanV(TRUE)>>), Ok(<<BooleanV(FALSE)>>)}

\* number of slots the zip of outputs and results walks over
Drained(n) == Min(NPorts(n), Len(outv[n].vals))

\* step 3: `self.instance.node_type.evaluate(eval.clone(), self, inputs).await`
EvalStep(n, rs) ==
  /\ NodeStep(n) /\ pc[n] = "eval"
  /\ \E r \in rs :
       IF r.ok /\ Min(NPorts(n), Len(r.vals)) = 0
         THEN outv' = [outv EXCEPT ![n] = NoResult] /\ pc' = [pc EXCEPT ![n] = "loop"]
         ELSE /\ outv' = [outv EXCEPT ![n] = r]
              /\ pc' = [pc EXCEPT ![n] = IF r.ok THEN "drain" ELSE BroadcastStart(n)]
  /\ ins' = [ins EXCEPT ![n] = <<>>]
  /\ idx' = [idx EXCEPT ![n] = 1]
  /\ UNCHANGED <<graph, state, permit, outputs, weak_listens, chan, tp, tgt, held,
                 res, credit, danglesLeft, out, ret, calls, closer, closes,
                 closedExt, afterClose>>

\* an operation whose result depends on its inputs only
Evaluate(n) ==
  /\ n \in Nodes /\ G.kind[n] \in AtomicKinds
  /\ EvalStep(n, Evaluations(n, ins[n]))
  /\ UNCHANGED ext

\* step 4, one slot: `socket.write().await.drain(..).for_each(|x| x.send(Some(out)))`
Drain(n) ==
  /\ NodeStep(n) /\ pc[n] = "drain"
  /\ chan' = SendAll(chan, outputs[n][idx[n]], "some", outv[n].vals[idx[n]])
  /\ outputs' = [outputs EXCEPT ![n][idx[n]] = <<>>]
  /\ IF idx[n] < Drained(n)
       THEN idx' = [idx EXCEPT ![n] = @ + 1] /\ pc' = pc /\ outv' = outv
       ELSE /\ idx' = [idx EXCEPT ![n] = 1]
            /\ pc' = [pc EXCEPT ![n] = "loop"]
            /\ outv' = [outv EXCEPT ![n] = NoResult]
  /\ UNCHANGED <<graph, state, permit, weak_listens, tp, tgt, ins, held, res,
                 credit, danglesLeft, out, ret, calls, closer, closes,
                 closedExt, afterClose, ext>>

\* broadcast_closed called by process(), one slot
Broadcast(n) ==
  /\ NodeStep(n) /\ pc[n] = "bc"
  /\ BroadcastSlot(n, idx[n])
  /\ IF idx[n] < NPorts(n)
       THEN idx' = [idx EXCEPT ![n] = @ + 1] /\ pc' = pc
       ELSE idx' = [idx EXCEPT ![n] = 1] /\ pc' = [pc EXCEPT ![n] = "bcstate"]
  /\ UNCHANGED <<graph, state, permit, weak_listens, tp, tgt, ins, held, outv, res,
                 credit, danglesLeft, out, ret, calls, closer, closes,
                 closedExt, afterClose, ext>>

\* broadcast_closed called by process(): `*self.state.write().await = Closed`,
\* then `return Ok(vec![])` or `return res`
BroadcastDone(n) ==
  /\ NodeStep(n) /\ pc[n] = "bcstate"
  /\ state' = [state EXCEPT ![n] = closed_state]
  /\ pc' = [pc EXCEPT ![n] = "done"]
  /\ res' = [res EXCEPT ![n] = IF outv[n].ok THEN "ok" ELSE "err"]
  /\ outv' = [outv EXCEPT ![n] = NoResult]
  /\ ins' = [ins EXCEPT ![n] = <<>>]
  /\ UNCHANGED <<graph, permit, outputs, weak_listens, chan, tp, tgt, idx, held,
                 credit, danglesLeft, out, ret, calls, closer, closes,
                 closedExt, afterClose, ext>>

(* ---------------------------------------------------------------------- *)
(* Evaluator::get_outputs, run by task 0                                   *)
(* ---------------------------------------------------------------------- *)
\* `self.nodes.get(&self.end_node)`
HasEndNode == G.end_node \in Nodes

\* `self.nodes.get(&self.end_node).ok_or(EvalError::NoEndNode)?`, then the
\* dangling nodes are collected
GetOutputs ==
  /\ pc[0] = "idle" /\ calls + closes < MaxOps
  /\ calls' = calls + 1
  /\ out' = <<>>
  /\ IF ~HasEndNode
       THEN /\ ret' = "NoEndNode"
            /\ UNCHANGED <<pc, danglesLeft>>
       ELSE /\ ret' = "pending"
            /\ danglesLeft' = Dangling(G)
            /\ pc' = [pc EXCEPT ![0] = "dangle"]
  /\ idx' = [idx EXCEPT ![0] = 1]
  /\ afterClose' = (closedExt \cap StrongUp(G) # {})
  /\ UNCHANGED <<graph, state, permit, outputs, weak_listens, chan, tp, tgt, ins, held,
                 outv, res, credit, closer, closes, closedExt, ext>>

\* `for node in dangles { node?.trigger_processing().await; }` (a HashSet is
\* walked in no particular order)
TriggerDangling ==
  /\ pc[0] = "dangle" /\ tp[0] = "idle"
  /\ danglesLeft # {}
  /\ \E d \in danglesLeft :
       /\ danglesLeft' = danglesLeft \ {d}
       /\ tgt' = [tgt EXCEPT ![0] = d]
       /\ tp' = [tp EXCEPT ![0] = "read"]
  /\ UNCHANGED <<graph, state, permit, outputs, weak_listens, chan, pc, idx, ins, held,
                 outv, res, credit, out, ret, calls, closer, closes,
                 closedExt, afterClose, ext>>

\* the ports taken from the last to the first
ListenPortDescending(i) == NPorts(G.end_node) + 1 - i

\* `for i in 0..node.outputs.len()`: the port listened on in round idx[0]
ListenPort(i) == i

\* `let recv = n.listen(i).await?` for the port of round idx[0]; with no port
\* left `Ok(out)`
ListenEnd ==
  /\ pc[0] = "dangle" /\ tp[0] = "idle"
  /\ danglesLeft = {}
  /\ IF idx[0] > NPorts(G.end_node)
       THEN /\ ret' = "Ok"
            /\ pc' = [pc EXCEPT ![0] = "idle"]
            /\ UNCHANGED <<chan, outputs, held, tp, tgt>>
       ELSE /\ Register(0, G.end_node, ListenPort(idx[0]), "listen")
            /\ held' = [held EXCEPT ![0] = [ch |-> 0, aw |-> FreshIndex(0)]]
            /\ tp' = [tp EXCEPT ![0] = TriggerAfter("listen")]
            /\ tgt' = [tgt EXCEPT ![0] = G.end_node]
            /\ pc' = [pc EXCEPT ![0] = "recv"]
            /\ ret' = ret
  /\ UNCHANGED <<graph, state, permit, weak_listens, idx, ins, outv, res, credit,
                 danglesLeft, out, calls, closer, closes,
                 closedExt, afterClose, ext>>

\* `let res = recv.await?.ok_or(EvalError::Closed)?; out.push(res);`
AwaitEnd ==
  /\ pc[0] = "recv" /\ tp[0] = "idle"
  /\ ~is_empty(0, held[0].aw)
  /\ LET i == Received(0, held[0].aw) IN
       IF i = NoValue
         THEN /\ ret' = "Closed"
              /\ pc' = [pc EXCEPT ![0] = "idle"]
              /\ UNCHANGED <<out, idx>>
         ELSE /\ out' = Append(out, i)
              /\ idx' = [idx EXCEPT ![0] = @ + 1]
              /\ pc' = [pc EXCEPT ![0] = "dangle"]
              /\ ret' = ret
  /\ held' = [held EXCEPT ![0] = NoHeld]
  /\ chan' = DropRx(chan, 0, held[0].aw)
  /\ UNCHANGED <<graph, state, permit, outputs, weak_listens, tp, tgt, ins, outv,
                 res, credit, danglesLeft, calls, closer, closes,
                 closedExt, afterClose, ext>>

(* ---------------------------------------------------------------------- *)
(* ExecutionNode::close, called from outside the node's task               *)
(* ---------------------------------------------------------------------- *)
\* close() is called on node n: broadcast_closed, first slot
Close(n) ==
  /\ n \in Nodes
  /\ closer = IdleCloser /\ calls + closes < MaxOps
  /\ closes' = closes + 1
  /\ IF NPorts(n) = 0
       THEN UNCHANGED <<chan, outputs>>
       ELSE BroadcastSlot(n, 1)
  /\ closer' = [node |-> n, port |-> 2]
  /\ UNCHANGED <<graph, state, permit, weak_listens, pc, tp, tgt, idx, ins, held, outv,
                 res, credit, danglesLeft, out, ret, calls,
                 closedExt, afterClose, ext>>

\* broadcast_closed called by close(), a further slot
CloseBroadcast ==
  /\ closer.node # 0 /\ closer.port <= NPorts(closer.node)
  /\ BroadcastSlot(closer.node, closer.port)
  /\ closer' = [closer EXCEPT !.port = @ + 1]
  /\ UNCHANGED <<graph, state, permit, weak_listens, pc, tp, tgt, idx, ins, held, outv,
                 res, credit, danglesLeft, out, ret, calls, closes,
                 closedExt, afterClose, ext>>

\* broadcast_closed called by close(): `*self.state.write().await = Closed`
CloseDone ==
  /\ closer.node # 0 /\ closer.port > NPorts(closer.node)
  /\ state' = [state EXCEPT ![closer.node] = closed_state]
  /\ closer' = IdleCloser
  /\ closedExt' = closedExt \cup {closer.node}
  /\ UNCHANGED <<graph, permit, outputs, weak_listens, chan, pc, tp, tgt, idx, ins,
                 held, outv, res, credit, danglesLeft, out, ret, calls, closes,
                 afterClose, ext>>

(* ---------------------------------------------------------------------- *)
(* Specifications                                                          *)
(* ---------------------------------------------------------------------- *)
Trigger(t) == TriggerRead(t) \/ TriggerNotify(t) \/ TriggerWrite(t)

Process(n) ==
  \/ LoopTest(n) \/ AwaitTrigger(n) \/ CheckSource(n) \/ GetChannel(n)
  \/ ListenAgain(n) \/ AwaitStrong(n) \/ GatherWeak(n) \/ SetWaiting(n)
  \/ Evaluate(n) \/ Drain(n) \/ Broadcast(n) \/ BroadcastDone(n)

Driver == TriggerDangling \/ ListenEnd \/ AwaitEnd

Closing == CloseBroadcast \/ CloseDone

Next ==
  \/ \E t \in Tasks : Trigger(t)
  \/ \E n \in NodeIds : Process(n)
  \/ GetOutputs
  \/ Driver
  \/ \E n \in NodeIds : Close(n)
  \/ Closing

Spec == Init /\ [][Next]_vars

\* the steps the program can take without a further call from outside
Progress ==
  \/ \E t \in Tasks : Trigger(t)
  \/ \E n \in NodeIds : Process(n)
  \/ Driver
  \/ Closing


(* ---------------------------------------------------------------------- *)
(* Evaluator::get_variable / set_variable and NodeType::eval_variable      *)
(* ---------------------------------------------------------------------- *)
\* one map shared by every instance
VarStoreShared(i) == "i1"

\* the map an evaluator instance reads and writes: its own
VarStore(i) == i

\* the inputs a Variable node can be evaluated with
VarInputs == {NoValue, NoneV, IntegerV(1), IntegerV(2)}

\* get_variable under the write lock: the stored value, or insert None
get_variable(i, nm) ==
  IF variables[VarStore(i)][nm] # Unset THEN variables[VarStore(i)][nm] ELSE NoneV

\* Variable::Get => Ok(vec![eval.get_variable(name).await])
VarGet(i, nm) ==
  /\ variables' = [variables EXCEPT ![VarStore(i)][nm] = get_variable(i, nm)]
  /\ got' = [inst |-> i, name |-> nm, val |-> get_variable(i, nm), last |-> lastSet[i][nm]]
  /\ UNCHANGED <<lastSet, exceptVarx>>

\* Variable::Set => `if let Some(val) = inputs[0].clone()` set_variable; Ok(vec![])
VarSet(i, nm, v) ==
  /\ v \in VarInputs
  /\ IF v # NoValue
       THEN /\ variables' = [variables EXCEPT ![VarStore(i)][nm] = v]
            /\ lastSet' = [lastSet EXCEPT ![i][nm] = v]
       ELSE UNCHANGED <<variables, lastSet>>
  /\ UNCHANGED <<got, exceptVarx>>

VarNext ==
  \/ \E i \in Instances, nm \in Names : VarGet(i, nm)
  \/ \E i \in Instances, nm \in Names, v \in VarInputs : VarSet(i, nm, v)

\* no graph is being evaluated: only Variable nodes act
VarInit == CoreInit({1}) /\ ExtInit

VarSpec == VarInit /\ [][VarNext]_vars

(* ---------------------------------------------------------------------- *)
(* NodeType::evaluate of a Complex node, and the evaluator cache           *)
(* ---------------------------------------------------------------------- *)
\* the inputs are unwrapped only after the child was looked up
ComplexUnwrapLate(w) == "runner"

\* `.collect::<Option<Vec<DataValue>>>().ok_or(EvalError::ComplexWeakInput)?`
ComplexUnwrap(w) == IF w THEN "ComplexWeakInput" ELSE "runner"

\* the map never has the node id
get_complex_runner_none(n) == NoChild

\* Evaluator::get_complex_runner
get_complex_runner(n) == complex_nodes[n]

\* the scopes get_evaluator and add_evaluator visit from the scope of node n
Chain(n) == Ancestors(CNode[n].scope)

\* the scope whose get_evaluator call asked scope s
Below(n, s) == CHOOSE c \in Chain(n) : parent(c) = s

\* process() calls evaluate with the gathered inputs; w: some input is None.
\* An Err makes process() close the node, which is then never evaluated again.
CplxBegin(n, w) ==
  /\ cx[n].pc = "idle"
  /\ cx[n].evals < MaxEvals
  /\ IF ComplexUnwrap(w) = "runner"
       THEN cx' = [cx EXCEPT ![n].pc = "runner", ![n].weak = w,
                             ![n].evals = @ + 1, ![n].res = "none"]
       ELSE cx' = [cx EXCEPT ![n].pc = "closed", ![n].weak = w,
                             ![n].evals = @ + 1, ![n].res = ComplexUnwrap(w)]
  /\ UNCHANGED <<ecache, complex_nodes, made, batches, used, exceptCplx>>

\* `if let Some(runner) = eval.get_complex_runner(&node.id).await`:
\* runner.send_inputs(unwrapped_inputs), else the template is looked up
CplxRunner(n) ==
  /\ cx[n].pc = "runner"
  /\ IF get_complex_runner(n) # NoChild
       THEN /\ batches' = [batches EXCEPT ![n] = @ + 1]
            /\ cx' = [cx EXCEPT ![n].pc = "outputs", ![n].child = get_complex_runner(n)]
       ELSE /\ cx' = [cx EXCEPT ![n].pc = "get", ![n].lvl = CNode[n].scope]
            /\ UNCHANGED batches
  /\ UNCHANGED <<ecache, complex_nodes, made, used, exceptCplx>>

\* Evaluator::get_evaluator: read the cache of scope lvl; on a miss ask the
\* parent, and without a parent answer None
CplxGet(n) ==
  /\ cx[n].pc = "get"
  /\ LET s == cx[n].lvl
         e == ecache[s][CNode[n].path]
     IN  IF e # NoEval
           THEN cx' = [cx EXCEPT ![n].e = e,
                                 ![n].pc = IF s = CNode[n].scope THEN "inst" ELSE "insert",
                                 ![n].lvl = IF s = CNode[n].scope THEN s
                                            ELSE Below(n, s)]
           ELSE IF parent(s) # 0
                  THEN cx' = [cx EXCEPT ![n].lvl = parent(s)]
                  ELSE cx' = [cx EXCEPT ![n].pc = "new"]
  /\ UNCHANGED <<ecache, complex_nodes, made, batches, used, exceptCplx>>

\* Evaluator::get_evaluator: `if let Some(e) = &got` insert it in the own cache
CplxGetInsert(n) ==
  /\ cx[n].pc = "insert"
  /\ LET s == cx[n].lvl
     IN  /\ ecache' = [ecache EXCEPT ![s][CNode[n].path] = cx[n].e]
         /\ cx' = [cx EXCEPT ![n].pc = IF s = CNode[n].scope THEN "inst" ELSE "insert",
                             ![n].lvl = IF s = CNode[n].scope THEN s ELSE Below(n, s)]
  /\ UNCHANGED <<complex_nodes, made, batches, used, exceptCplx>>

\* `Evaluator::new(rel.clone(), Some(eval.clone()))?`: the load may fail
CplxNew(n, ok) ==
  /\ cx[n].pc = "new"
  /\ IF ok
       THEN cx' = [cx EXCEPT ![n].pc = "add", ![n].lvl = CNode[n].scope,
                             ![n].e = [by |-> n, k |-> cx[n].evals]]
       ELSE cx' = [cx EXCEPT ![n].pc = "closed", ![n].res = "LoadError"]
  /\ UNCHANGED <<ecache, complex_nodes, made, batches, used, exceptCplx>>

\* Evaluator::add_evaluator: insert in the cache of scope lvl, then recurse
\* to the parent; the two caches are locked one after the other
CplxAdd(n) ==
  /\ cx[n].pc = "add"
  /\ LET s == cx[n].lvl
     IN  /\ ecache' = [ecache EXCEPT ![s][CNode[n].path] = cx[n].e]
         /\ IF parent(s) # 0
              THEN cx' = [cx EXCEPT ![n].lvl = parent(s)]
              ELSE cx' = [cx EXCEPT ![n].pc = "inst", ![n].added = TRUE]
  /\ UNCHANGED <<complex_nodes, made, batches, used, exceptCplx>>

\* the parent link of an instance of template e: Evaluator::new was given the
\* scope of the node that loaded the file, and clone copies `parent`
InstanceParent(e) == CNode[e.by].scope

\* `e.instantiate(unwrapped_inputs)`: a new instance, which is sent the inputs
CplxInstantiate(n) ==
  /\ cx[n].pc = "inst"
  /\ made' = [made EXCEPT ![n] = @ + 1]
  /\ batches' = [batches EXCEPT ![n] = @ + 1]
  /\ cx' = [cx EXCEPT ![n].pc = "reg", ![n].child = [of |-> n, k |-> made[n] + 1]]
  /\ UNCHANGED <<ecache, complex_nodes, used, exceptCplx>>

\* Evaluator::add_complex_runner
CplxRegister(n) ==
  /\ cx[n].pc = "reg"
  /\ complex_nodes' = [complex_nodes EXCEPT ![n] = cx[n].child]
  /\ cx' = [cx EXCEPT ![n].pc = "outputs"]
  /\ UNCHANGED <<ecache, made, batches, used, exceptCplx>>

\* `runner.get_outputs().await`: the child's outputs, or the child's error
CplxOutputs(n, ok) ==
  /\ cx[n].pc = "outputs"
  /\ used' = [used EXCEPT ![n] = Append(@, cx[n].child)]
  /\ cx' = [cx EXCEPT ![n].pc = IF ok THEN "idle" ELSE "closed",
                      ![n].res = IF ok THEN "Ok" ELSE "ChildError"]
  /\ UNCHANGED <<ecache, complex_nodes, made, batches, exceptCplx>>

CplxNext ==
  \E n \in CNodes :
    \/ \E w \in BOOLEAN : CplxBegin(n, w)
    \/ CplxRunner(n)
    \/ CplxGet(n)
    \/ CplxGetInsert(n)
    \/ \E ok \in BOOLEAN : CplxNew(n, ok)
    \/ CplxAdd(n)
    \/ CplxInstantiate(n)
    \/ CplxRegister(n)
    \/ \E ok \in BOOLEAN : CplxOutputs(n, ok)

\* the Complex nodes of one instance, each evaluated by its own task
CplxSpec == VarInit /\ [][CplxNext]_vars

(* ---------------------------------------------------------------------- *)
(* The instance behind a Complex node: send_inputs, ControlFlow::Start     *)
(* ---------------------------------------------------------------------- *)
\* `inputs.1.write().await.recv().await`: the oldest batch of the channel
NextBatch(q) == Head(q)

\* `runner.send_inputs(unwrapped_inputs)` (instantiate does the same for the
\* first evaluation): the k-th evaluation sends the batch [Integer(k)]
SendInputs ==
  /\ pc[0] = "idle" /\ sent = calls /\ calls + closes < MaxOps
  /\ inputq' = Append(inputq, <<IntegerV(sent + 1)>>)
  /\ sent' = sent + 1
  /\ UNCHANGED <<core, exceptChld>>

\* `runner.get_outputs().await`, after the batch was sent
ChildGetOutputs == sent = calls + 1 /\ GetOutputs

\* ControlFlow::Start => Ok(eval.get_inputs().await): waits for a batch
EvaluateStart(n) ==
  /\ n \in Nodes /\ G.kind[n] = "Start"
  /\ inputq # <<>>
  /\ EvalStep(n, {Ok(NextBatch(inputq))})
  /\ inputq' = IF pc[n] = "eval" THEN Tail(inputq) ELSE inputq
  /\ UNCHANGED <<sent, exceptChld>>

\* process() in a graph without weak edges and without failing operations
ChildProcess(n) ==
  \/ LoopTest(n) \/ AwaitTrigger(n) \/ CheckSource(n) \/ GetChannel(n)
  \/ ListenAgain(n) \/ AwaitStrong(n) \/ SetWaiting(n)
  \/ Evaluate(n) \/ EvaluateStart(n) \/ Drain(n)

ChildProgress ==
  \/ \E t \in Tasks : Trigger(t)
  \/ \E n \in NodeIds : ChildProcess(n)
  \/ Driver

ChildNext ==
  \/ SendInputs
  \/ ChildGetOutputs
  \/ ChildProgress

ChildInit == CoreInit({ChildIx}) /\ ExtInit

\* a Complex node of the parent evaluates its child again and again
ChildSpec == ChildInit /\ [][ChildNext]_vars

(* ---------------------------------------------------------------------- *)
(* task_listen and Evaluator::shutdown                                     *)
(* ---------------------------------------------------------------------- *)
\* Evaluator::shutdown: `self.closed.store(true, Release)`
Shutdown ==
  /\ ~closed
  /\ closed' = TRUE
  /\ UNCHANGED <<sup, wrap, exceptSupx>>

\* the task `js.spawn(x)` made for the JoinHandle x of node n: it ends when
\* the node task has ended
WrapperJoin(n) ==
  /\ n \in Nodes /\ wrap[n] = "awaiting" /\ pc[n] = "done"
  /\ wrap' = [wrap EXCEPT ![n] = "finished"]
  /\ UNCHANGED <<closed, sup, exceptSupx>>

\* one round of `while !eval.closed.load(Acquire)`: the flag is seen, or
\* try_join_next yields a finished task, or the set is empty; otherwise the
\* round changes nothing
SupRound ==
  /\ sup = "loop"
  /\ IF closed
       THEN sup' = "abort" /\ wrap' = wrap
       ELSE IF \E n \in Nodes : wrap[n] = "finished"
              THEN /\ \E n \in Nodes : /\ wrap[n] = "finished"
                                       /\ wrap' = [wrap EXCEPT ![n] = "joined"]
                   /\ sup' = sup
              ELSE /\ \A n \in Nodes : wrap[n] = "joined"
                   /\ sup' = "returned" /\ wrap' = wrap
  /\ UNCHANGED <<closed, exceptSupx>>

\* `for handle in abort_handles.drain(0..) { handle.abort(); }`: the handles
\* are those of the JoinSet tasks; a JoinSet task that is aborted drops the
\* JoinHandle it awaited, which detaches the node task
SupAbort ==
  /\ sup = "abort"
  /\ wrap' = [n \in NodeIds |-> IF wrap[n] = "awaiting" THEN "aborted" ELSE wrap[n]]
  /\ sup' = "returned"
  /\ UNCHANGED <<closed, exceptSupx>>

\* process() in a graph without weak edges
SupProcess(n) ==
  \/ LoopTest(n) \/ AwaitTrigger(n) \/ CheckSource(n) \/ GetChannel(n)
  \/ ListenAgain(n) \/ AwaitStrong(n) \/ SetWaiting(n)
  \/ Evaluate(n) \/ Drain(n) \/ Broadcast(n) \/ BroadcastDone(n)

SupNext ==
  \/ \E t \in Tasks : Trigger(t)
  \/ \E n \in NodeIds : SupProcess(n)
  \/ GetOutputs
  \/ Driver
  \/ Shutdown
  \/ \E n \in NodeIds : WrapperJoin(n)
  \/ SupRound
  \/ SupAbort

\* one running instance with its supervisor, as main.rs uses it
SupSpec == VarInit /\ [][SupNext]_vars

(* ---------------------------------------------------------------------- *)
(* NodeType::eval_control: If, While and WaitForInit                       *)
(* ---------------------------------------------------------------------- *)
ControlKinds == {"If", "While", "WaitForInit"}

\* the channels listen_all made for task n and join_all still awaits
AllChannels(n) == {k \in 1..Len(chan[n]) : chan[n][k].how = "all" /\ chan[n][k].rx}

\* join_all, then `.map(|x| x.unwrap_or(DataValue::None))`, by port
Joined(n) ==
  [p \in 1..NPorts(G.edge[n]) |->
     LET k == CHOOSE j \in AllChannels(n) : chan[n][j].port = p
     IN  IF chan[n][k].msg = "some" THEN chan[n][k].v ELSE NoneV]

\* a While that answers its listeners on a true condition as well
WhileTrueResultNone == <<NoneV>>

\* While, condition true: `Ok(vec![])`
WhileTrueResult == <<>>

\* what eval_control does first with the inputs `is` of node n: fail, return
\* at once, or call listen_all on the end-edge (init-edge) node
ControlFirst(n, is) ==
  IF HasNone(is) THEN [do |-> "ret", r |-> Err]
  ELSE CASE G.kind[n] = "While" ->
              IF is[1].ty # "Boolean" THEN [do |-> "ret", r |-> Err]
              ELSE IF is[1] = BooleanV(TRUE) THEN [do |-> "listen", r |-> Ok(WhileTrueResult)]
              ELSE [do |-> "ret", r |-> Ok(<<NoneV>>)]
         [] G.kind[n] = "If" ->
              IF Len(is) > 0 /\ is[1] = BooleanV(TRUE)
                THEN [do |-> "listen", r |-> Ok(<<NoneV>>)]
                ELSE [do |-> "ret", r |-> Ok(<<NoneV>>)]
         [] G.kind[n] = "WaitForInit" ->
              IF ~ctl[n].stored THEN [do |-> "listen", r |-> Ok(<<>>)]
              ELSE IF is[1] = NoneV THEN [do |-> "ret", r |-> Ok(<<>>)]
              ELSE [do |-> "ret", r |-> Ok(is)]

CondOf(is) ==
  IF Len(is) > 0 /\ is[1] = BooleanV(TRUE) THEN "true"
  ELSE IF Len(is) > 0 /\ is[1] = BooleanV(FALSE) THEN "false" ELSE "other"

\* evaluate of an atomic node in a graph with control-flow nodes
CtlEvaluate(n) ==
  /\ n \in Nodes /\ G.kind[n] \in AtomicKinds
  /\ EvalStep(n, {r \in Evaluations(n, ins[n]) :
                    r = Ok(<<BooleanV(TRUE)>>) => ctl[n].trues < MaxTrue})
  /\ ctl' = [ctl EXCEPT ![n].fresh = TRUE,
                        ![n].trues = IF outv'[n] = Ok(<<BooleanV(TRUE)>>) THEN @ + 1 ELSE @]
  /\ UNCHANGED exceptCtl

\* eval_control up to its first await
CtlBegin(n) ==
  /\ n \in Nodes /\ G.kind[n] \in ControlKinds
  /\ ctl[n].at = "begin"
  /\ NodeStep(n) /\ pc[n] = "eval"
  /\ LET f == ControlFirst(n, ins[n]) IN
       IF f.do = "ret"
         THEN /\ EvalStep(n, {f.r})
              /\ ctl' = [ctl EXCEPT ![n].cond = CondOf(ins[n])]
         ELSE /\ ctl' = [ctl EXCEPT ![n].cond = CondOf(ins[n]), ![n].at = "listen",
                                    ![G.edge[n]].asked = TRUE, ![G.edge[n]].fresh = FALSE]
              /\ idx' = [idx EXCEPT ![n] = 1]
              /\ UNCHANGED <<graph, state, permit, outputs, weak_listens, chan, pc, tp,
                             tgt, ins, held, outv, res, credit, danglesLeft, out, ret,
                             calls, closer, closes, closedExt, afterClose>>
  /\ UNCHANGED exceptCtl

\* listen_all: a sender pushed on the next output slot of the end-edge node,
\* and after the last slot `self.trigger_processing().await`
CtlListenAll(n) ==
  /\ NodeStep(n) /\ pc[n] = "eval" /\ ctl[n].at = "listen"
  /\ IF idx[n] <= NPorts(G.edge[n])
       THEN /\ Register(n, G.edge[n], idx[n], "all")
            /\ idx' = [idx EXCEPT ![n] = @ + 1]
            /\ UNCHANGED <<tp, tgt, ctl>>
       ELSE /\ tp' = [tp EXCEPT ![n] = "read"]
            /\ tgt' = [tgt EXCEPT ![n] = G.edge[n]]
            /\ ctl' = [ctl EXCEPT ![n].at = "join"]
            /\ idx' = [idx EXCEPT ![n] = 1]
            /\ UNCHANGED <<chan, outputs>>
  /\ UNCHANGED <<graph, state, permit, weak_listens, pc, ins, held, outv, res, credit,
                 danglesLeft, out, ret, calls, closer, closes, closedExt, afterClose,
                 exceptCtl>>

\* join_all returns once every receiver has its message; then While calls
\* `node.trigger_processing()` and WaitForInit `set_stored(Boolean(true))`
CtlJoin(n) ==
  /\ NodeStep(n) /\ pc[n] = "eval" /\ ctl[n].at = "join"
  /\ Cardinality(AllChannels(n)) = NPorts(G.edge[n])
  /\ \A k \in AllChannels(n) : ~is_empty(n, k)
  /\ chan' = [chan EXCEPT ![n] = [k \in DOMAIN chan[n] |->
                                    IF k \in AllChannels(n) THEN DeadChannel ELSE chan[n][k]]]
  /\ ctl' = [ctl EXCEPT ![n].at = "ret", ![n].vals = Joined(n),
                        ![n].stored = @ \/ G.kind[n] = "WaitForInit"]
  /\ tp' = [tp EXCEPT ![n] = IF G.kind[n] = "While" THEN "read" ELSE "idle"]
  /\ tgt' = [tgt EXCEPT ![n] = IF G.kind[n] = "While" THEN n ELSE 0]
  /\ UNCHANGED <<graph, state, permit, outputs, weak_listens, pc, idx, ins, held, outv,
                 res, credit, danglesLeft, out, ret, calls, closer, closes, closedExt,
                 afterClose, exceptCtl>>

\* the value eval_control returns after join_all
CtlReturn(n) ==
  /\ n \in Nodes /\ ctl[n].at = "ret"
  /\ EvalStep(n, {IF G.kind[n] = "WaitForInit" THEN Ok(ctl[n].vals)
                  ELSE ControlFirst(n, ins[n]).r})
  /\ ctl' = [ctl EXCEPT ![n].at = "begin", ![n].vals = <<>>]
  /\ UNCHANGED exceptCtl

CtlProcess(n) ==
  \/ LoopTest(n) \/ AwaitTrigger(n) \/ CheckSource(n) \/ GetChannel(n)
  \/ ListenAgain(n) \/ AwaitStrong(n) \/ GatherWeak(n) \/ SetWaiting(n)
  \/ CtlEvaluate(n) \/ CtlBegin(n) \/ CtlListenAll(n) \/ CtlJoin(n) \/ CtlReturn(n)
  \/ Drain(n) \/ Broadcast(n) \/ BroadcastDone(n)

CtlProgress ==
  \/ \E t \in Tasks : Trigger(t)
  \/ \E n \in NodeIds : CtlProcess(n)
  \/ Driver

\* `instance.get_outputs().await`, called once (main.rs)
CtlGetOutputs == calls = 0 /\ GetOutputs

CtlNext == CtlGetOutputs \/ CtlProgress

CtlInit == CoreInit((ChildIx + 1)..Len(AllGraphs)) /\ ExtInit

\* an instance of a graph with one control-flow node, asked for its outputs
CtlSpec == CtlInit /\ [][CtlNext]_vars

(* ---------------------------------------------------------------------- *)
(* The I/O and agent registries, Io(Open) and AgentOp(Create)              *)
(* ---------------------------------------------------------------------- *)
\* the lookup stops at the scope of the caller
find_registry_mut_own(r, s, id) == IF s # 0 /\ id \in r[s] THEN s ELSE 0

\* Evaluator::find_io_registry_mut and find_agent_registry_mut on the
\* registries r: the first scope from s along `parent` that has the key, or 0
\* for Err(IoNotFound) / Err(AgentNotFound)
RECURSIVE find_registry_mut(_, _, _)
find_registry_mut(r, s, id) ==
  IF s = 0 THEN 0
  ELSE IF id \in r[s] THEN s ELSE find_registry_mut(r, parent(s), id)

\* the node never has a stored value
get_stored_none(n) == 0

\* ExecutionNode::get_stored; 0 stands for None
get_stored(n) == reg.stored[n]

\* NodeType::eval_io, AtomicIo::Open, as process() runs it.  w: some input is
\* None; ok: the file or socket could be opened.  An Err makes process()
\* close the node, which is then never evaluated again.  The steps of one
\* evaluation touch the stored value of the node, which no other task
\* touches, and add one fresh key to the registry of the node's scope.
EvalOpen(n, w, ok) ==
  /\ ONode[n].kind = "Open"
  /\ reg.at[n] = "idle" /\ reg.evals[n] < MaxEvals
  /\ LET begun == [reg EXCEPT !.evals[n] = @ + 1, !.w[n] = w]
         sc == ONode[n].scope
     IN  IF w
           THEN reg' = [begun EXCEPT !.at[n] = "closed",
                          !.last[n] = [ok |-> FALSE, id |-> 0, err |-> "IncorrectInputCount"]]
         ELSE IF get_stored(n) # 0
           THEN reg' = [begun EXCEPT !.last[n] = [ok |-> TRUE, id |-> get_stored(n), err |-> "none"]]
         ELSE IF ok
           THEN reg' = [begun EXCEPT !.io[sc] = @ \cup {reg.next}, !.next = @ + 1,
                          !.stored[n] = reg.next,
                          !.last[n] = [ok |-> TRUE, id |-> reg.next, err |-> "none"]]
           ELSE reg' = [begun EXCEPT !.at[n] = "closed",
                          !.last[n] = [ok |-> FALSE, id |-> 0, err |-> "IoError"]]
  /\ UNCHANGED exceptReg

\* NodeType::eval_agent, AgentOperation::Create.  ok: AgentArgs::from_values
\* is Some; otherwise `todo!()` panics and the node task ends
EvalCreate(n, w, ok) ==
  /\ ONode[n].kind = "Create"
  /\ reg.at[n] = "idle" /\ reg.evals[n] < MaxEvals
  /\ LET begun == [reg EXCEPT !.evals[n] = @ + 1, !.w[n] = w]
         sc == ONode[n].scope
     IN  IF w
           THEN reg' = [begun EXCEPT !.at[n] = "closed",
                          !.last[n] = [ok |-> FALSE, id |-> 0, err |-> "IncorrectInputCount"]]
         ELSE IF get_stored(n) # 0
           THEN reg' = [begun EXCEPT !.last[n] = [ok |-> TRUE, id |-> get_stored(n), err |-> "none"]]
         ELSE IF ok
           THEN reg' = [begun EXCEPT !.agents[sc] = @ \cup {reg.next}, !.next = @ + 1,
                          !.stored[n] = reg.next,
                          !.last[n] = [ok |-> TRUE, id |-> reg.next, err |-> "none"]]
           ELSE reg' = [begun EXCEPT !.at[n] = "panicked",
                          !.last[n] = [ok |-> FALSE, id |-> 0, err |-> "panic"]]
  /\ UNCHANGED exceptReg

\* Evaluator::read_until, read_bytes and write_bytes (kind "io") and
\* agent_send_message (kind "agent") called on scope s with handle id, which
\* is one of the ids drawn so far or one that was never registered
HandleOp(kind, s, id) ==
  /\ reg.ops < MaxOps
  /\ reg' = [reg EXCEPT !.ops = @ + 1,
               !.op = [kind |-> kind, s |-> s, id |-> id,
                       found |-> find_registry_mut(IF kind = "io" THEN reg.io ELSE reg.agents,
                                                   s, id)]]
  /\ UNCHANGED exceptReg

RegNext ==
  \/ \E n \in ONodes, w, ok \in BOOLEAN : EvalOpen(n, w, ok)
  \/ \E n \in ONodes, w, ok \in BOOLEAN : EvalCreate(n, w, ok)
  \/ \E kind \in {"io", "agent"}, s \in Scopes, id \in 1..reg.next : HandleOp(kind, s, id)

\* the nodes of three scopes open handles while operations look handles up
RegSpec == VarInit /\ [][RegNext]_vars

(* ---------------------------------------------------------------------- *)
(* Operations that index or assert on the number of their inputs           *)
(* ---------------------------------------------------------------------- *)
\* a panic inside evaluate unwinds the node task: process() returns nothing,
\* makes no broadcast and leaves the state it set in step 5
Panic(n) ==
  /\ NodeStep(n) /\ pc[n] = "eval"
  /\ pc' = [pc EXCEPT ![n] = "done"]
  /\ res' = [res EXCEPT ![n] = "panic"]
  /\ ins' = [ins EXCEPT ![n] = <<>>]
  /\ UNCHANGED <<graph, state, permit, outputs, weak_listens, chan, tp, tgt, idx,
                 held, outv, credit, danglesLeft, out, ret, calls, closer, closes,
                 closedExt, afterClose>>

\* NodeType::eval_bin_op: `assert!(inputs.len() == 2)`, then the inputs are
\* unwrapped and the operator applied, which fails on operands it is not
\* defined for
EvaluateBinOp(n) ==
  /\ n \in Nodes /\ G.kind[n] = "BinOp"
  /\ IF Len(ins[n]) # 2
       THEN Panic(n)
       ELSE EvalStep(n, IF HasNone(ins[n]) THEN {Err} ELSE {Ok(<<IntegerV(1)>>), Err})
  /\ UNCHANGED ext

\* NodeType::eval_variable, Variable::Set: `inputs[0]` is indexed whatever the
\* number of inputs, a Some value is stored and the result is Ok(vec![])
EvaluateSet(n) ==
  /\ n \in Nodes /\ G.kind[n] = "Set"
  /\ IF Len(ins[n]) = 0
       THEN Panic(n) /\ UNCHANGED <<variables, lastSet>>
       ELSE /\ EvalStep(n, {Ok(<<>>)})
            /\ IF ins[n][1] # NoValue /\ pc[n] = "eval"
                 THEN /\ variables' = [variables EXCEPT ![VarStore("i1")]["a"] = ins[n][1]]
                      /\ lastSet' = [lastSet EXCEPT !["i1"]["a"] = ins[n][1]]
                 ELSE UNCHANGED <<variables, lastSet>>
  /\ UNCHANGED <<got, cplx, chld, supx, ctl, reg, ld, call>>

\* process() in a graph without weak edges
ArityProcess(n) ==
  \/ LoopTest(n) \/ AwaitTrigger(n) \/ CheckSource(n) \/ GetChannel(n)
  \/ ListenAgain(n) \/ AwaitStrong(n) \/ SetWaiting(n)
  \/ Evaluate(n) \/ EvaluateBinOp(n) \/ EvaluateSet(n)
  \/ Drain(n) \/ Broadcast(n) \/ BroadcastDone(n)

ArityNext ==
  \/ CtlGetOutputs
  \/ \E t \in Tasks : Trigger(t)
  \/ \E n \in NodeIds : ArityProcess(n)
  \/ Driver

ArityInit == CoreInit((Len(Graphs) + 1)..(Len(Graphs) + Len(ArityGraphs))) /\ ExtInit

\* an instance whose BinOp or Variable(Set) node has the number of input
\* edges its specification gives it, asked for its outputs
AritySpec == ArityInit /\ [][ArityNext]_vars

(* ---------------------------------------------------------------------- *)
(* Evaluator::new, AsyncClone for Evaluator and Evaluator::instantiate     *)
(* ---------------------------------------------------------------------- *)
\* the edge lists a node of a file can have: none, or one edge from node 1, 2
\* or from id 3, which is no instance of the file
FileEdges == {<<>>} \cup {<<Edge(src, 1, st)>> : src \in 1..3, st \in BOOLEAN}

\* the specification files: two instances, ids 1 and 2, with their input edges
Files == {[n |-> 2, inputs |-> <<e1, e2>>] : e1 \in FileEdges, e2 \in FileEdges}

\* Evaluator::new on file f: one ExecutionNode::new per instance with the edges
\* as written in the file, `dangling` computed from them, empty maps.
\* listeners: senders in `outputs`; triggered: trigger_processing was called
\* on the node; tasks: nodes whose process() was spawned; ins: the inputs the
\* node last gathered
NewEvaluator(f) ==
  [nodes |-> 1..f.n, inputs |-> f.inputs,
   state |-> [id \in 1..f.n |-> "Waiting"], listeners |-> [id \in 1..f.n |-> 0],
   stored |-> [id \in 1..f.n |-> 0], weak |-> [id \in 1..f.n |-> 0],
   ins |-> [id \in 1..f.n |-> <<>>],
   triggered |-> {}, tasks |-> {},
   dangling |-> Dangling(f),
   io |-> {}, agents |-> {}, variables |-> {}, complex |-> {},
   closed |-> FALSE, inputq |-> <<>>]

\* AsyncClone for Evaluator with ExecutionNode::clone for every node: ids,
\* edges and the dangling set are copied, everything else starts afresh
CloneEvaluator(e) ==
  [nodes |-> e.nodes, inputs |-> e.inputs,
   state |-> [id \in e.nodes |-> "Waiting"], listeners |-> [id \in e.nodes |-> 0],
   stored |-> [id \in e.nodes |-> 0], weak |-> [id \in e.nodes |-> 0],
   ins |-> [id \in e.nodes |-> <<>>],
   triggered |-> {}, tasks |-> {},
   dangling |-> e.dangling,
   io |-> {}, agents |-> {}, variables |-> {}, complex |-> {},
   closed |-> FALSE, inputq |-> <<>>]

\* the batch is sent twice
send_inputs_twice(q, b) == Append(Append(q, b), b)

\* Evaluator::send_inputs
send_inputs(q, b) == Append(q, b)

\* process(), step 2: the inputs gathered for node id, one per edge whose
\* source is in the node map; other edges are passed over
Gathered(e, id) == SelectSeq(e.inputs[id], LAMBDA x : x.src \in e.nodes)

\* Evaluator::new: the file cannot be read or parsed (ok = FALSE), or the
\* template is built
Load(ok) ==
  /\ ld.stage = "file"
  /\ ld' = IF ok THEN [ld EXCEPT !.stage = "loaded", !.tmpl = NewEvaluator(ld.file)]
                 ELSE [ld EXCEPT !.stage = "failed"]
  /\ UNCHANGED exceptLd

\* Evaluator::instantiate: clone, send the caller's inputs, spawn one task per
\* node of the instance; the k-th call is given the batch [Integer(k)]
Instantiate ==
  /\ ld.stage = "loaded" /\ Len(ld.inst) < MaxOps
  /\ LET b == <<IntegerV(Len(ld.inst) + 1)>>
         i == CloneEvaluator(ld.tmpl)
     IN  ld' = [ld EXCEPT !.given = b,
                  !.inst = Append(@, [i EXCEPT !.inputq = send_inputs(@, b),
                                               !.tasks = i.nodes])]
  /\ UNCHANGED exceptLd

\* what the tasks of instance k and its callers do to it.  "node": node id is
\* triggered, listened on and evaluated with the inputs it gathered, and
\* stores a value.  "maps": handles, agents, variables and children are
\* registered, the batch is received and shutdown is called
RunInstance(k, what, id) ==
  /\ ld.stage = "loaded" /\ k \in 1..Len(ld.inst)
  /\ LET i == ld.inst[k] IN
       /\ what = "node" => id \in i.nodes
       /\ what # "node" => id = 1
       /\ ld' = [ld EXCEPT !.inst[k] =
            IF what = "node"
              THEN [i EXCEPT !.state[id] = "Processing", !.listeners[id] = 1,
                             !.stored[id] = 1, !.weak[id] = 1,
                             !.ins[id] = Gathered(i, id),
                             !.triggered = @ \cup {id}]
              ELSE [i EXCEPT !.io = {1}, !.agents = {1}, !.variables = {"a"},
                             !.complex = {1}, !.closed = TRUE,
                             !.inputq = IF @ = <<>> THEN @ ELSE Tail(@)]]
  /\ UNCHANGED exceptLd

LoadNext ==
  \/ \E ok \in BOOLEAN : Load(ok)
  \/ Instantiate
  \/ \E k \in 1..MaxOps, what \in {"node", "maps"}, id \in 1..2 : RunInstance(k, what, id)

LoadInit ==
  /\ CoreInit({1}) /\ FeatInit /\ call = NoCall
  /\ \E f \in Files : ld = [stage |-> "file", file |-> f, tmpl |-> NoLoad,
                            inst |-> <<>>, given |-> <<>>]

\* a file is loaded and its template instantiated again and again
LoadSpec == LoadInit /\ [][LoadNext]_vars

(* ---------------------------------------------------------------------- *)
(* AtomicType::IsNone evaluated on its own                                 *)
(* ---------------------------------------------------------------------- *)
\* what an input of a node can be: no value (Option::None) or Some value
CallValues == {NoValue, NoneV, IntegerV(0), IntegerV(1), BooleanV(TRUE), BooleanV(FALSE),
               StringV(1)}

\* the input lists of up to two inputs
CallInputs == {<<>>} \cup {<<x>> : x \in CallValues}
                \cup {<<x, y>> : x \in CallValues, y \in CallValues}

\* evaluate is called on the IsNone node n with the inputs of the call
EvaluateIsNone(n) ==
  /\ n \in Nodes /\ G.kind[n] = "IsNone"
  /\ call.stage = "args"
  /\ \E r \in Evaluations(n, call.inputs) :
       call' = [call EXCEPT !.stage = "done", !.result = r]
  /\ UNCHANGED exceptCall

\* the IsNone node of the feedback graph, given any list of inputs
IsNoneInit ==
  /\ CoreInit({2}) /\ FeatInit /\ ld = NoLoad
  /\ \E is \in CallInputs : call = [stage |-> "args", inputs |-> is, result |-> NoResult]

IsNoneSpec == IsNoneInit /\ [][\E n \in NodeIds : EvaluateIsNone(n)]_vars

(* ---------------------------------------------------------------------- *)
(* read_until_generic                                                      *)
(* ---------------------------------------------------------------------- *)
\* the byte strings of at most k bytes, over two byte values
RECURSIVE ByteStrings(_)
ByteStrings(k) ==
  IF k = 0 THEN {<<>>}
  ELSE ByteStrings(k - 1) \cup {Append(t, b) : t \in ByteStrings(k - 1), b \in {0, 1}}

\* the window keeps every byte
push_window_keep(w, b, k) == Append(w, b)

\* `window.push_back(byte[0])`, then `window.pop_front()` when the window is
\* longer than the pattern (k bytes)
push_window(w, b, k) == IF Len(w) + 1 > k THEN Tail(Append(w, b)) ELSE Append(w, b)

\* one turn of the loop: a read of one byte that returns 0 at end of stream,
\* else the byte is pushed to buffer and window and the window compared
ReadByte ==
  /\ call.stage = "reading"
  /\ IF call.unread = <<>>
       THEN call' = [call EXCEPT !.stage = "done"]
       ELSE LET b == Head(call.unread)
                w == push_window(call.window, b, Len(call.pattern))
            IN  call' = [call EXCEPT
                           !.unread = Tail(@), !.buffer = Append(@, b), !.window = w,
                           !.stage = IF Len(w) = Len(call.pattern) /\ w = call.pattern
                                       THEN "done" ELSE "reading"]
  /\ UNCHANGED exceptCall

\* `reader.read(&mut byte).await?`: the read fails and the bytes read so far
\* are dropped with the buffer
ReadFail ==
  /\ call.stage = "reading"
  /\ call' = [call EXCEPT !.stage = "failed", !.buffer = <<>>, !.window = <<>>]
  /\ UNCHANGED exceptCall

\* Evaluator::read_until on a handle with unread bytes `stream`
ReadInit ==
  /\ CoreInit({1}) /\ FeatInit /\ ld = NoLoad
  /\ \E st \in ByteStrings(MaxStream), p \in ByteStrings(MaxPattern) :
       call = [stage |-> "reading", stream |-> st, pattern |-> p, unread |-> st,
               buffer |-> <<>>, window |-> <<>>]

ReadSpec == ReadInit /\ [][ReadByte \/ ReadFail]_vars

(* ---------------------------------------------------------------------- *)
(* NodeType::eval_io, AtomicIo::Read, and Evaluator::read_bytes            *)
(* ---------------------------------------------------------------------- *)
\* `buf.resize(*size as usize, 0)` on a new Vec<u8>, then read_buf, which
\* writes behind the bytes the Vec already has: the room it finds there is
\* the spare capacity, reserved 64 bytes at a time when there is none (a
\* Vec<u8> that grows from nothing is given 8 bytes at least)
Spare(n) == IF n = 0 \/ n >= 8 THEN 64 ELSE 8 - n

\* n zero bytes
Zeros(n) == [j \in 1..n |-> 0]

\* AtomicIo::Read on a registered handle with inputs (Handle, Integer(size)).
\* ok: the read succeeds; count: the bytes one read obtains, none only at the
\* end of the stream.  `buf.resize(count, 0)` then cuts the Vec, which holds
\* the `size` zeros followed by the bytes read, to its first `count` bytes
EvalRead(ok, count) ==
  /\ call.stage = "args"
  /\ count <= Min(Len(call.unread), Spare(call.size))
  /\ count = 0 => call.unread = <<>>
  /\ IF ok
       THEN call' = [call EXCEPT
                       !.stage = "done",
                       !.unread = SubSeq(@, count + 1, Len(@)),
                       !.result = SubSeq(Zeros(call.size) \o SubSeq(call.unread, 1, count),
                                         1, count)]
       ELSE call' = [call EXCEPT !.stage = "failed"]
  /\ UNCHANGED exceptCall

\* a handle with unread bytes `stream` and an Io(Read) node given a size
ReadBytesInit ==
  /\ CoreInit({1}) /\ FeatInit /\ ld = NoLoad
  /\ \E st \in ByteStrings(MaxStream), n \in 0..MaxStream :
       call = [stage |-> "args", stream |-> st, size |-> n, unread |-> st,
               result |-> <<>>]

ReadBytesSpec ==
  ReadBytesInit /\ [][\E ok \in BOOLEAN, count \in 0..MaxStream : EvalRead(ok, count)]_vars

(* ---------------------------------------------------------------------- *)
(* One weak edge, its source broadcasting numbered values                  *)
(* ---------------------------------------------------------------------- *)
\* The consumer's side of one weak edge and the output slot of its source.
\* call.chans[k] is the k-th oneshot channel made by weak_listen: v its
\* content (0 when empty, else the number of the broadcast that filled it),
\* rx whether its receiver is still held.  slot: the senders in the source's
\* output slot.  cache: the entry of weak_listens for the edge (0 for none),
\* hand: `channel` of the running gather, got: what the last gather pushed
\* to `inputs` (0 for None), at: the number of broadcasts made before it,
\* since: the number made before the gather called get_channel.

\* get_channel on the weak edge: the cached receiver is taken out of
\* weak_listens; weak_listen pushes a new sender in any case, and its receiver
\* is dropped at once when a cached one exists
WeakGetChannel ==
  /\ call.stage = "idle" /\ call.gathers < MaxWeak
  /\ LET c == Len(call.chans) + 1 IN
       call' = [call EXCEPT !.stage = "weakchk", !.gathers = @ + 1,
                            !.chans = Append(@, [v |-> 0, rx |-> call.cache = 0]),
                            !.slot = Append(@, c),
                            !.hand = IF call.cache = 0 THEN c ELSE call.cache,
                            !.cache = 0, !.since = call.produced]
  /\ UNCHANGED exceptCall

\* `if channel.is_empty() { weak_listens.insert(connection, channel); None }
\* else { channel.await? }`
WeakGather ==
  /\ call.stage = "weakchk"
  /\ IF call.chans[call.hand].v = 0
       THEN call' = [call EXCEPT !.stage = "idle", !.cache = call.hand, !.hand = 0,
                                 !.got = 0, !.at = call.produced]
       ELSE call' = [call EXCEPT !.stage = "idle", !.hand = 0,
                                 !.chans[call.hand].rx = FALSE,
                                 !.got = call.chans[call.hand].v, !.at = call.produced]
  /\ UNCHANGED exceptCall

\* step 4 of the source: `socket.write().await.drain(..).for_each(|x| x.send(Some(out)))`
\* with its next value; a send to a dropped receiver is lost
WeakBroadcast ==
  /\ call.produced < MaxWeak
  /\ call' = [call EXCEPT
                !.produced = @ + 1,
                !.chans = [k \in DOMAIN @ |->
                             IF InSeq(k, call.slot) /\ @[k].rx
                               THEN [@[k] EXCEPT !.v = call.produced + 1] ELSE @[k]],
                !.slot = <<>>]
  /\ UNCHANGED exceptCall

\* the weak edge of the feedback graph, nothing registered or produced yet
WeakInit ==
  /\ CoreInit({2}) /\ FeatInit /\ ld = NoLoad
  /\ call = [stage |-> "idle", produced |-> 0, gathers |-> 0, chans |-> <<>>,
             slot |-> <<>>, cache |-> 0, hand |-> 0, got |-> 0, at |-> 0, since |-> 0]

WeakSpec == WeakInit /\ [][WeakGetChannel \/ WeakGather \/ WeakBroadcast]_vars

(* ---------------------------------------------------------------------- *)
(* get_outputs on an end node with two ports, its invocations numbered     *)
(* ---------------------------------------------------------------------- *)
\* call.port: the port get_outputs is at, out: the number of the invocation
\* that produced each value pushed so far, slot[p]: whether the sender of
\* get_outputs is in output slot p, recv: the content of its receiver (0 when
\* empty).  state, permit: the end node's state and the permit of its Notify;
\* inv: the number of its running or last invocation, dp: the slot it drains
\* next (0 when it drains none), gathered: it has its inputs and is about
\* to be evaluated.

\* get_outputs, `let recv = n.listen(i).await?`: listen pushes the sender
GetOutputsListen ==
  /\ call.stage \in {"idle", "listen"}
  /\ call.stage = "idle" => call.calls < MaxOps
  /\ LET p == IF call.stage = "idle" THEN 1 ELSE call.port IN
       call' = [call EXCEPT !.stage = "trigger", !.port = p,
                            !.calls = IF call.stage = "idle" THEN @ + 1 ELSE @,
                            !.out = IF call.stage = "idle" THEN <<>> ELSE @,
                            !.slot[p] = TRUE]
  /\ UNCHANGED exceptCall

\* listen goes on with trigger_processing, which notifies a Waiting node and
\* sets Processing
GetOutputsTrigger ==
  /\ call.stage = "trigger"
  /\ call' = [call EXCEPT !.stage = "await",
                          !.permit = IF call.state = "Waiting" THEN 1 ELSE @,
                          !.state = "Processing"]
  /\ UNCHANGED exceptCall

\* get_outputs, `let res = recv.await?.ok_or(EvalError::Closed)?; out.push(res)`,
\* then the next port or `Ok(out)`
GetOutputsAwait ==
  /\ call.stage = "await" /\ call.recv # 0
  /\ call' = [call EXCEPT !.out = Append(@, call.recv), !.recv = 0,
                          !.port = @ + 1,
                          !.stage = IF call.port = NPorts(G.end_node) THEN "idle" ELSE "listen"]
  /\ UNCHANGED exceptCall

\* process() of the end node, steps 1 and 2: `self.trigger.notified().await`,
\* then the inputs are gathered
EndNotified ==
  /\ call.dp = 0 /\ ~call.gathered /\ call.permit = 1
  /\ call' = [call EXCEPT !.permit = 0, !.gathered = TRUE]
  /\ UNCHANGED exceptCall

\* steps 5 and 3: state set to Waiting, the operation evaluated
EndEvaluate ==
  /\ call.gathered
  /\ call' = [call EXCEPT !.gathered = FALSE, !.state = "Waiting", !.inv = @ + 1, !.dp = 1]
  /\ UNCHANGED exceptCall

\* step 4, one slot of the zip: every sender of the slot is drained and sent
\* the value of this invocation
EndDrain ==
  /\ call.dp > 0
  /\ call' = [call EXCEPT !.recv = IF call.slot[call.dp] THEN call.inv ELSE @,
                          !.slot[call.dp] = FALSE,
                          !.dp = IF @ < NPorts(G.end_node) THEN @ + 1 ELSE 0]
  /\ UNCHANGED exceptCall

\* the graph whose end node has two ports, instantiated, nothing asked yet
PortsInit ==
  /\ CoreInit({4}) /\ FeatInit /\ ld = NoLoad
  /\ call = [stage |-> "idle", calls |-> 0, port |-> 1, out |-> <<>>,
             slot |-> <<FALSE, FALSE>>, recv |-> 0,
             state |-> "Waiting", permit |-> 0, gathered |-> FALSE, inv |-> 0, dp |-> 0]

PortsSpec ==
  PortsInit /\ [][GetOutputsListen \/ GetOutputsTrigger \/ GetOutputsAwait
                    \/ EndNotified \/ EndEvaluate \/ EndDrain]_vars

(* ---------------------------------------------------------------------- *)
(* shutdown of an instance that has child instances                        *)
(* ---------------------------------------------------------------------- *)
\* The instances are numbered as the scopes they belong to: instance 1 is the
\* one main.rs makes, instance s is made by a Complex node of instance
\* parent(s).  call.complex[i]: the children in the running-complex map of
\* instance i, closed[i]: its closed flag, sup[i]: its task_listen ("none"
\* before instantiate), tasks[i]: its node tasks, shut: the shutdown call.

\* eval_complex in instance p, no runner registered for the node yet:
\* `let i = e.instantiate(..).await; eval.add_complex_runner(i.clone(), &node.id)`
AddComplexRunner(p, c) ==
  /\ parent(c) = p /\ call.tasks[p] = "running" /\ call.sup[c] = "none"
  /\ call' = [call EXCEPT !.complex[p] = @ \cup {c}, !.sup[c] = "loop",
                          !.tasks[c] = "running"]
  /\ UNCHANGED exceptCall

\* the node tasks of instance i have all ended
TasksEnd(i) ==
  /\ call.tasks[i] = "running"
  /\ call' = [call EXCEPT !.tasks[i] = "ended"]
  /\ UNCHANGED exceptCall

\* `instance.shutdown().await` of main.rs: `self.closed.store(true, Release)`
ShutdownInstance ==
  /\ call.shut = "no"
  /\ call' = [call EXCEPT !.closed[1] = TRUE, !.shut = "returned"]
  /\ UNCHANGED exceptCall

\* task_listen of instance i, a round that changes something: the flag is
\* seen, or the JoinSet has become empty
TaskListenRound(i) ==
  /\ call.sup[i] = "loop"
  /\ call.closed[i] \/ call.tasks[i] = "ended"
  /\ call' = [call EXCEPT !.sup[i] = IF call.closed[i] THEN "abort" ELSE "returned"]
  /\ UNCHANGED exceptCall

\* task_listen of instance i: `for handle in abort_handles.drain(0..) { handle.abort(); }`
TaskListenAbort(i) ==
  /\ call.sup[i] = "abort"
  /\ call' = [call EXCEPT !.sup[i] = "returned",
                          !.tasks[i] = IF @ = "running" THEN "aborted" ELSE @]
  /\ UNCHANGED exceptCall

\* main.rs: `eval.instantiate(vec![])`, no Complex node evaluated yet
ShutInit ==
  /\ CoreInit({1}) /\ FeatInit /\ ld = NoLoad
  /\ call = [complex |-> [i \in Scopes |-> {}],
             closed |-> [i \in Scopes |-> FALSE],
             sup |-> [i \in Scopes |-> IF i = 1 THEN "loop" ELSE "none"],
             tasks |-> [i \in Scopes |-> IF i = 1 THEN "running" ELSE "none"],
             shut |-> "no"]

ShutNext ==
  \/ \E p \in Scopes, c \in Scopes : AddComplexRunner(p, c)
  \/ \E i \in Scopes : TasksEnd(i) \/ TaskListenRound(i) \/ TaskListenAbort(i)
  \/ ShutdownInstance

ShutSpec == ShutInit /\ [][ShutNext]_vars

(* ---------------------------------------------------------------------- *)
(* BinOp and UnaryOp(Neg) on Integer operands                              *)
(* ---------------------------------------------------------------------- *)
IntMin == -(2 ^ (IntBits - 1))
IntMax == 2 ^ (IntBits - 1) - 1
Ints == IntMin..IntMax

IntegerR(v) == [kind |-> "Integer", v |-> v]
FloatR == [kind |-> "Float", v |-> 0]
DivByZeroR == [kind |-> "DivByZero", v |-> 0]
PanicR == [kind |-> "panic", v |-> 0]

\* the outcomes of `+`, `-`, `*` and i64::pow with exact result v: the result
\* when it fits; when it does not, a panic (overflow checks on) or the result
\* wrapped to the width (overflow checks off)
Overflowing(v) ==
  IF v \in Ints THEN {IntegerR(v)}
  ELSE {PanicR, IntegerR(((v - IntMin) % (2 ^ IntBits)) + IntMin)}

\* `x / y` of two integers, y # 0: the quotient rounded towards zero
TruncDiv(x, y) ==
  LET q == (IF x < 0 THEN -x ELSE x) \div (IF y < 0 THEN -y ELSE y)
  IN  IF (x < 0) = (y < 0) THEN q ELSE -q

\* i64::pow with an exponent that is not negative, its exact value
RECURSIVE pow(_, _)
pow(b, e) == IF e = 0 THEN 1 ELSE b * pow(b, e - 1)

\* the operators of typing.rs on (Integer(x), Integer(y)), as the set of
\* outcomes the build can produce.  `/` and `%` test the divisor for zero
\* and then divide; the division of the least integer by -1 overflows, which
\* panics in every build
bin_op(op, x, y) ==
  CASE op = "Add" -> Overflowing(x + y)
    [] op = "Sub" -> Overflowing(x - y)
    [] op = "Mul" -> Overflowing(x * y)
    [] op = "Div" -> IF y = 0 THEN {DivByZeroR}
                     ELSE IF x = IntMin /\ y = -1 THEN {PanicR}
                     ELSE {IntegerR(TruncDiv(x, y))}
    [] op = "Mod" -> IF y = 0 THEN {DivByZeroR}
                     ELSE IF x = IntMin /\ y = -1 THEN {PanicR}
                     ELSE {IntegerR(x - y * TruncDiv(x, y))}
    [] op = "Pow" -> IF y < 0 THEN {FloatR} ELSE Overflowing(pow(x, y))

\* eval_unary, Neg: `x.mul(DataValue::Integer(-1))`
eval_unary(x) == bin_op("Mul", x, -1)

\* eval_bin_op or eval_unary is called with Integer operands; a panic ends
\* the node task
EvalInt ==
  /\ call.stage = "args"
  /\ \E r \in IF call.op = "Neg" THEN eval_unary(call.x) ELSE bin_op(call.op, call.x, call.y) :
       call' = [call EXCEPT !.stage = "done", !.result = r]
  /\ UNCHANGED exceptCall

\* a BinOp or Neg node given any Integer operands (Neg has one, y is 0)
IntInit ==
  /\ CoreInit({1}) /\ FeatInit /\ ld = NoLoad
  /\ \E op \in {"Add", "Sub", "Mul", "Div", "Mod", "Pow", "Neg"}, x \in Ints, y \in Ints :
       /\ op = "Neg" => y = 0
       /\ call = [stage |-> "args", op |-> op, x |-> x, y |-> y, result |-> IntegerR(0)]

IntSpec == IntInit /\ [][EvalInt]_vars

\* ---------------------------------------------------------------------------
\* Properties
\* ---------------------------------------------------------------------------

\* receivers that are still held by the task that registered them
Live(t, k) == chan[t][k].rx

RunOver == ~ENABLED Next

\* no close() was called from outside and no node has closed or failed
NoFault ==
  closes = 0 /\ \A n \in Nodes : state[n] # "Closed" /\ res[n] = "running"

\* C3: Closed is absorbing: no step changes a Closed node's state to anything
\* else, and no Closed node leaves the point where its evaluation starts.
C3_ClosedAbsorbing ==
  [][\A n \in NodeIds :
       state[n] = "Closed" =>
         /\ state'[n] = "Closed"
         /\ ~(pc[n] = "eval" /\ pc'[n] # "eval")]_vars

\* C7: get_outputs returns NoEndNode exactly when the end node is missing, and
\* then has touched nothing; otherwise it listens only once every dangling node
\* has been triggered, the listener of round i is on port i of the end node,
\* Ok carries one value per port, and Closed is returned with the ports after
\* the one that delivered None never listened on.
C7_GetOutputs ==
  /\ (ret = "NoEndNode") <=> (calls > 0 /\ ~HasEndNode)
  /\ ret = "NoEndNode" =>
       /\ pc[0] = "idle" /\ chan[0] = <<>> /\ out = <<>>
       /\ \A n \in NodeIds : permit[n] = 0 /\ credit[n] = 0
  /\ held[0].aw # 0 =>
       /\ danglesLeft = {}
       /\ chan[0][held[0].aw].node = G.end_node
       /\ chan[0][held[0].aw].port = Len(out) + 1
       /\ chan[0][held[0].aw].how = "listen"
  /\ ret = "Ok" => pc[0] = "idle" /\ Len(out) = NPorts(G.end_node)
  /\ ret = "Closed" => pc[0] = "idle" /\ Len(out) < NPorts(G.end_node)
  /\ ret = "pending" => pc[0] # "idle" /\ Len(out) = idx[0] - 1

\* a call on an end node with two ports has returned both values
C7_Witness ==
  ret = "Ok" /\ HasEndNode /\ NPorts(G.end_node) = 2 /\ Len(out) = 2

\* the step of node n that registers or polls the receiver of a weak edge
WeakStep(n) ==
  /\ pc[n] \in {"getch", "weakchk"}
  /\ pc'[n] # pc[n]
  /\ idx[n] <= Len(Inputs(n))
  /\ ~Inputs(n)[idx[n]].strong

\* C10: the steps of a gather over a weak edge start no trigger and leave the
\* source's state and stored permit as they were, and the gathering node can
\* always take the step that polls the weak receiver.
C10_WeakNeverTriggersNorBlocks ==
  /\ [][\A n \in NodeIds :
          WeakStep(n) =>
            /\ tp'[n] = "idle"
            /\ state'[Inputs(n)[idx[n]].src] = state[Inputs(n)[idx[n]].src]
            /\ permit'[Inputs(n)[idx[n]].src] = permit[Inputs(n)[idx[n]].src]]_vars
  /\ [](\A n \in NodeIds :
          (pc[n] = "weakchk" /\ tp[n] = "idle") => ENABLED GatherWeak(n))

\* a node is about to evaluate with None gathered over a weak edge whose
\* receiver it has put back
C10_Witness ==
  \E n \in NodeIds :
    /\ pc[n] \in {"setwait", "eval"}
    /\ Len(ins[n]) = 1 /\ ins[n][1] = NoValue
    /\ weak_listens[n][1] # 0

C2_LateListenerGetsNone ==
  \A t \in Tasks : \A k \in DOMAIN chan[t] :
    (Live(t, k) /\ chan[t][k].late /\ chan[t][k].how = "listen")
      => (chan[t][k].msg = "none" \/ ENABLED Progress)

\* C4: a get_outputs that began after close() had returned on a node strongly
\* upstream of the end node does not return outputs, and while it has not
\* returned some task of the program can still take a step.
C4_CloseCascade ==
  afterClose => /\ ret # "Ok"
                /\ ret = "pending" => ENABLED Progress

\* C5: a node whose task ended with an evaluation error is Closed with no
\* listener left on its ports, and a get_outputs whose end node is that node
\* or depends on it through strong edges is never left waiting with no task
\* of the program able to take a step.
C5_ErrorCloses ==
  \A n \in Nodes :
    res[n] = "err" =>
      /\ state[n] = "Closed"
      /\ (n \in StrongUp(G) \cup {G.end_node} /\ ret = "pending") => ENABLED Progress

\* C6, on runs in which no close() was called and no node closed or failed:
\* a get_outputs that has not returned is never left with no task of the
\* program able to take a step (every graph here has a weak edge on each
\* cycle and every evaluation returns).
C6_NoMutualWait ==
  (NoFault /\ ret = "pending") => ENABLED Progress

\* C8, on runs in which no close() was called and no node closed or failed:
\* a permit is released for a node, and its state is set to Processing, only
\* by a step taken while the node is in Waiting, and at most one permit is
\* stored for a node.
C8_TriggerOnlyWhenWaiting ==
  /\ [][NoFault =>
          \A n \in NodeIds :
            (\/ permit'[n] > permit[n]
             \/ (state'[n] = "Processing" /\ state[n] # "Processing"))
              => state[n] = "Waiting"]_vars
  /\ [](\A n \in NodeIds : permit[n] <= 1)

\* C9, on runs in which no close() was called and no node closed or failed:
\* whenever no trigger_processing is in progress on a node, the node has begun
\* no more cycles than Waiting-to-Processing transitions were made on it.
C9_OneCyclePerTransition ==
  NoFault =>
    \A n \in NodeIds :
      (\A t \in Tasks : tgt[t] # n) => credit[n] >= 0

\* C20: a Get returns the value of the last completed Set of that name in its
\* own instance, None when there was none, and leaves the name in the map
\* with that value, whatever was set in the other instance.
C20_GetReturnsLastSet ==
  got # NoGet =>
    /\ got.val = got.last
    /\ variables[got.inst][got.name] # Unset
    /\ \A i \in Instances, nm \in Names :
         variables[i][nm] \in {Unset, lastSet[i][nm]}

\* a Get returned None for a name never set while the other instance holds a
\* value under that name
C20_Witness ==
  /\ got # NoGet /\ got.val = NoneV
  /\ variables[got.inst][got.name] = NoneV
  /\ \E j \in Instances \ {got.inst} : variables[j][got.name] = IntegerV(1)


\* C12: once add_evaluator(p, e) has returned on a scope and no other
\* add_evaluator is running, get_evaluator(p) returns one and the same
\* evaluator on that scope and on every ancestor scope, also when several
\* Complex nodes added the path concurrently.
C12_CacheCoherent ==
  \A n \in CNodes :
    (cx[n].added /\ \A m \in CNodes : cx[m].pc \notin {"add", "get", "insert"}) =>
      \E e \in {ecache[s][CNode[n].path] : s \in Scopes} \ {NoEval} :
        \A s \in Chain(n) : ecache[s][CNode[n].path] = e

\* C13: for each Complex node id at most one child is ever instantiated and
\* registered, and every evaluation of the node awaits that same child.
C13_OneChildPerNode ==
  \A n \in CNodes :
    /\ made[n] <= 1
    /\ complex_nodes[n] \in {NoChild, [of |-> n, k |-> 1]}
    /\ \A i \in 1..Len(used[n]) : used[n][i] = [of |-> n, k |-> 1]
    /\ Len(used[n]) > 0 => complex_nodes[n] = [of |-> n, k |-> 1]

C13_Witness ==
  \E n \in CNodes : Len(used[n]) = 2 /\ made[n] = 1 /\ cx[n].pc = "idle"

\* C15: a Complex node evaluated with a None input fails with
\* ComplexWeakInput in the step that receives the inputs, and that step
\* instantiates and registers no child, sends no batch and leaves every
\* evaluator cache as it was.
C15_WeakInputFails ==
  [][\A n \in CNodes :
       (cx[n].pc = "idle" /\ cx'[n].pc # "idle" /\ cx'[n].weak) =>
         /\ cx'[n].res = "ComplexWeakInput"
         /\ cx'[n].pc = "closed"
         /\ UNCHANGED <<ecache, complex_nodes, made, batches, used>>]_vars

C15_Witness ==
  \E n \in CNodes :
    /\ cx[n].res = "ComplexWeakInput"
    /\ cx[n].evals = 2
    /\ complex_nodes[n] # NoChild
    /\ batches[n] = 1

\* C14: the k-th evaluation of a Complex node sends one batch, its
\* get_outputs on the child does not stay pending with no step left to take,
\* and it returns the outputs the child's end node computed from the k-th
\* batch.
C14_KthBatchAnswered ==
  /\ sent \in {calls, calls + 1} /\ (pc[0] # "idle" => sent = calls)
  /\ (pc[0] = "idle" /\ sent = calls /\ calls >= 1) =>
       ret = "Ok" /\ out = <<IntegerV(calls)>>
  /\ pc[0] # "idle" => ENABLED ChildProgress

\* C11: once shutdown() was called and the supervisor has returned, no node
\* task of the instance is running, so no node leaves notified() to begin a
\* new evaluation cycle.
C11_ShutdownStopsNodes ==
  [][(closed /\ sup = "returned") =>
       \A n \in Nodes : ~(pc[n] = "park" /\ pc'[n] # "park")]_vars

\* C16: the end-edge node of an If node leaves notified() to begin a cycle
\* only after an If invocation with condition Boolean(true) has called
\* listen_all on it.
C16_EndEdgeOnlyOnTrue ==
  [][\A n \in Nodes :
       G.kind[n] = "If" =>
         ((pc[G.edge[n]] = "park" /\ pc'[G.edge[n]] # "park") => ctl[G.edge[n]].asked)]_vars

\* C17: when join_all returns in a While invocation, so that the While node
\* goes on to trigger itself, the end-edge node has completed an evaluation
\* since this invocation called listen_all on it.
C17_RetriggerAfterBody ==
  [][\A n \in Nodes :
       (G.kind[n] = "While" /\ ctl[n].at = "join" /\ ctl'[n].at = "ret") =>
         ctl[G.edge[n]].fresh]_vars

\* C18: a pending listener of get_outputs on the port of a While node stays
\* in the output slot through every step that does not answer it, and the
\* one message it receives is Some(None), sent by an invocation whose
\* condition is false.
C18_WhileListener ==
  [][\A k \in 1..Len(chan[0]) :
       LET c == chan[0][k]
           d == chan'[0][k]
       IN  (c.rx /\ c.msg = "empty" /\ c.node \in Nodes /\ G.kind[c.node] = "While"
              /\ InSeq(<<0, k>>, outputs[c.node][c.port])) =>
             IF d.msg = "empty"
               THEN InSeq(<<0, k>>, outputs'[c.node][c.port])
               ELSE /\ d.msg = "some" /\ d.v = NoneV /\ d.sent = 1
                    /\ ctl[c.node].cond = "false"]_vars

C18_Witness ==
  \E n \in Nodes :
    /\ G.kind[n] = "While"
    /\ ctl[G.edge[n]].asked /\ ctl[n].cond = "false"
    /\ ret = "Ok" /\ out = <<NoneV>>

\* C19: a WaitForInit node is never closed by an invocation of its own: its
\* evaluation returns no error, whether or not its weak input has a value.
C19_WaitForInitNeverCloses ==
  \A n \in Nodes :
    G.kind[n] = "WaitForInit" => (outv[n].ok /\ res[n] # "err" /\ state[n] # "Closed")
\* C21: an operation on handle id issued from scope S finds the handle
\* exactly when id is a key of the registry of S or of one of S's ancestors
\* along the parent chain, and otherwise fails with IoNotFound (AgentNotFound
\* for agents); found or not, the lookup leaves every registry as it was.
C21_LookupAlongParents ==
  [][reg'.ops # reg.ops =>
       LET o == reg'.op
           r == IF o.kind = "io" THEN reg.io ELSE reg.agents
       IN  /\ (o.found # 0) <=> (\E a \in Ancestors(o.s) : o.id \in r[a])
           /\ o.found # 0 => (o.found \in Ancestors(o.s) /\ o.id \in r[o.found])
           /\ reg'.io = reg.io /\ reg'.agents = reg.agents]_vars

C21_Witness ==
  /\ reg.op.kind = "io" /\ reg.op.s = 4 /\ reg.op.found = 1
  /\ reg.ops = 2


\* C22: the child instance registered for a Complex node that executes in
\* scope P has P as its parent link, also when its template came from the
\* evaluator cache after another scope had loaded it.
C22_ChildParentIsCaller ==
  \A n \in CNodes :
    complex_nodes[n] # NoChild => InstanceParent(cx[n].e) = CNode[n].scope


\* C23: once an Io(Open) or AgentOp(Create) node has a stored value, every
\* later evaluation of the node returns that same handle or agent and adds
\* no entry to any registry.
C23_LaterEvaluationsReturnStored ==
  [][\A n \in ONodes :
       (reg'.evals[n] # reg.evals[n] /\ reg.stored[n] # 0) =>
         /\ reg'.last[n] = [ok |-> TRUE, id |-> reg.stored[n], err |-> "none"]
         /\ reg'.io = reg.io /\ reg'.agents = reg.agents]_vars

\* C23, amended: once an Io(Open) or AgentOp(Create) node has a stored value,
\* every later evaluation whose inputs are all present returns that same
\* handle or agent, a later evaluation with a None input fails with
\* IncorrectInputCount, and no later evaluation changes the stored value or
\* adds an entry to any registry.
C23_LaterEvaluationsReuse ==
  [][\A n \in ONodes :
       (reg'.evals[n] # reg.evals[n] /\ reg.stored[n] # 0) =>
         /\ reg'.last[n] = IF reg'.w[n]
                             THEN [ok |-> FALSE, id |-> 0, err |-> "IncorrectInputCount"]
                             ELSE [ok |-> TRUE, id |-> reg.stored[n], err |-> "none"]
         /\ reg'.stored[n] = reg.stored[n]
         /\ reg'.io = reg.io /\ reg'.agents = reg.agents]_vars

C23_Witness ==
  \A k \in {"Open", "Create"} :
    \E n \in ONodes :
      /\ ONode[n].kind = k /\ reg.evals[n] = 2
      /\ reg.last[n].ok /\ reg.last[n].id = reg.stored[n]
      /\ reg.stored[n] \in reg.io[ONode[n].scope] \cup reg.agents[ONode[n].scope]

\* C24: a failed open memoizes nothing and leaves the node able to run, so
\* that its next trigger attempts the open again.
C24_FailedOpenRetried ==
  [][\A n \in ONodes :
       (reg'.evals[n] # reg.evals[n] /\ reg'.last[n].err = "IoError") =>
         (reg'.stored[n] = 0 /\ reg'.at[n] = "idle")]_vars


\* C25: an evaluation of a BinOp node (arity 2) or a Variable(Set) node
\* (arity 1) with another number of inputs returns an error to process(),
\* which starts the broadcast of the close; no node task ends while a
\* listener of the node still waits.
C25_ArityMismatchCloses ==
  [][\A n \in NodeIds :
       /\ (/\ n \in Nodes /\ G.kind[n] \in {"BinOp", "Set"}
           /\ pc[n] = "eval" /\ pc'[n] # "eval"
           /\ Len(ins[n]) # (IF G.kind[n] = "BinOp" THEN 2 ELSE 1)) =>
            (~outv'[n].ok /\ pc'[n] = BroadcastStart(n))
       /\ (n \in Nodes /\ pc[n] # "done" /\ pc'[n] = "done") =>
            \A p \in 1..NPorts(n) : outputs'[n][p] = <<>>]_vars


\* C26: once a specification is loaded, every input edge of every node of
\* the scope names as its source a node of the scope's node map.
C26_EdgesResolve ==
  ld.stage = "loaded" =>
    \A id \in ld.tmpl.nodes :
      \A j \in 1..Len(ld.tmpl.inputs[id]) : ld.tmpl.inputs[id][j].src \in ld.tmpl.nodes

\* C27: instantiate leaves the template as it was, the template's nodes stay
\* Waiting without listeners, triggers or tasks, and the new instance has
\* every node Waiting with no listener, no stored value and no cached weak
\* receiver, empty I/O, agent, variable and running-complex maps, the closed
\* flag false, and exactly the caller's batch in its input channel.
C27_InstantiateFresh ==
  [][/\ ld'.stage = "loaded" =>
          /\ ld'.tmpl.tasks = {} /\ ld'.tmpl.triggered = {}
          /\ \A id \in ld'.tmpl.nodes :
               ld'.tmpl.state[id] = "Waiting" /\ ld'.tmpl.listeners[id] = 0
     /\ (ld.stage = "loaded" /\ Len(ld'.inst) > Len(ld.inst)) =>
          LET i == ld'.inst[Len(ld'.inst)] IN
            /\ ld'.tmpl = ld.tmpl
            /\ \A k \in 1..Len(ld.inst) : ld'.inst[k] = ld.inst[k]
            /\ i.nodes = ld.tmpl.nodes
            /\ \A id \in i.nodes :
                 /\ i.state[id] = "Waiting" /\ i.listeners[id] = 0
                 /\ i.stored[id] = 0 /\ i.weak[id] = 0
            /\ i.io = {} /\ i.agents = {} /\ i.variables = {} /\ i.complex = {}
            /\ ~i.closed
            /\ i.inputq = <<ld'.given>>]_vars

C27_Witness ==
  /\ ld.stage = "loaded" /\ Len(ld.inst) = 2
  /\ ld.inst[1].io # {} /\ ld.inst[1].closed /\ ld.inst[1].inputq = <<>>
  /\ ld.inst[1].triggered = ld.inst[1].nodes
  /\ ld.inst[2].inputq = <<<<IntegerV(2)>>>> /\ ld.inst[2].triggered = {}

\* C28: after load the dangling set of the scope is the set of ids of the
\* specification that no input edge of any node names as its source, and
\* every instance carries that same set.
C28_DanglingSet ==
  ld.stage = "loaded" =>
    /\ ld.tmpl.dangling =
         {id \in 1..ld.file.n :
            ~\E m \in 1..ld.file.n : \E j \in 1..Len(ld.file.inputs[m]) :
                ld.file.inputs[m][j].src = id}
    /\ \A k \in 1..Len(ld.inst) : ld.inst[k].dangling = ld.tmpl.dangling

C28_Witness ==
  /\ ld.stage = "loaded" /\ Len(ld.inst) = 2
  /\ ld.tmpl.dangling = {2} /\ ld.inst[2].dangling = {2}
  /\ ld.inst[1].triggered # {}


\* C29: IsNone given one input x returns Boolean(true) when x is None, be it
\* a weak input without a value or the value None delivered by the source,
\* and Boolean(false) for every other value.
C29_IsNoneOfNone ==
  (call.stage = "done" /\ Len(call.inputs) = 1) =>
    call.result = Ok(<<BooleanV(call.inputs[1] \in {NoValue, NoneV})>>)


\* C30: read_until with a non-empty pattern returns the shortest prefix of
\* the unread bytes that ends with the pattern, or all unread bytes when the
\* pattern does not occur, and the bytes left unread are those after the
\* returned ones.
C30_ShortestPrefix ==
  (call.stage = "done" /\ call.pattern # <<>>) =>
    LET n == Len(call.pattern)
        ends == {k \in n..Len(call.stream) :
                   SubSeq(call.stream, k - n + 1, k) = call.pattern}
        first == CHOOSE k \in ends : \A j \in ends : k <= j
    IN  /\ call.buffer = IF ends = {} THEN call.stream ELSE SubSeq(call.stream, 1, first)
        /\ call.buffer \o call.unread = call.stream

C30_Witness ==
  /\ call.stage = "done" /\ call.pattern = <<0, 1>>
  /\ call.stream = <<0, 0, 1, 0>> /\ call.buffer = <<0, 0, 1>> /\ call.unread = <<0>>


\* C31: read_until with an empty pattern returns an empty byte sequence and
\* consumes no byte of the handle.
C31_EmptyPatternReadsNothing ==
  (call.stage = "done" /\ call.pattern = <<>>) =>
    (call.buffer = <<>> /\ call.unread = call.stream)


\* C32: Io(Read) with size n returns at most n bytes, which are the next
\* unread bytes of the handle in order and the only ones consumed; with
\* n = 0 it returns the empty array and reads nothing.
C32_ReadReturnsNextBytes ==
  call.stage = "done" =>
    /\ Len(call.result) <= call.size
    /\ call.result = SubSeq(call.stream, 1, Len(call.result))
    /\ call.result \o call.unread = call.stream
    /\ call.size = 0 => (call.result = <<>> /\ call.unread = call.stream)


\* C33: the gather of a node over a strong edge registers one single-shot
\* listener on the source's output port and waits on it: at no moment does a
\* node task have two of its listeners in the output slots of its sources.
C33_OneListenerPerStrongEdge ==
  \A n \in Nodes :
    Cardinality({k \in 1..Len(chan[n]) : chan[n][k].how = "listen" /\ InSlots(n, k)}) <= 1


\* C34, on runs in which no close() was called and no node closed or failed:
\* a node in Processing has a stored trigger permit, or its task is between
\* taking a permit and setting the state back to Waiting (or closing); so
\* no node stays in Processing with a task that waits for a permit.
C34_ProcessingIsServed ==
  NoFault =>
    \A n \in Nodes :
      state[n] = "Processing" =>
        \/ permit[n] > 0
        \/ pc[n] \in {"chk", "getch", "listen2", "recv", "weakchk", "setwait", "bc", "bcstate"}



\* C35: within one invocation a node gathers its inputs in declared order and
\* hands the operation exactly one entry per declared edge, in that order: a
\* node that has been evaluated gathered the list of its edges, none left out.
C35_OneEntryPerEdge ==
  ld.stage = "loaded" =>
    \A k \in 1..Len(ld.inst) :
      \A id \in ld.inst[k].triggered : ld.inst[k].ins[id] = ld.inst[k].inputs[id]


\* C36: when the gather over a weak edge finds the cached channel ready and
\* consumes it, the cache then holds for that edge a fresh listener that is
\* registered on the source's output slot; when the channel is not ready, the
\* cache holds that same channel again.  (The channel in hand is the cached
\* one when the sender this invocation registered last is another one; the
\* ready channel is one that carries a value.)
C36_WeakCacheRefilled ==
  [][\A n \in Nodes :
       (pc[n] = "weakchk" /\ pc'[n] # "weakchk") =>
         LET c  == held[n].ch
             j  == idx[n]
             e  == Inputs(n)[j]
             sl == outputs[e.src][e.port]
         IN  (sl # <<>> /\ sl[Len(sl)][1] = n /\ sl[Len(sl)][2] # c) =>
               /\ (weak_ready(n, c) /\ chan[n][c].msg = "some") =>
                    /\ weak_listens'[n][j] \notin {0, c}
                    /\ chan'[n][weak_listens'[n][j]].rx
                    /\ InSeq(<<n, weak_listens'[n][j]>>, outputs'[e.src][e.port])
               /\ ~weak_ready(n, c) => weak_listens'[n][j] = c]_vars


\* C37: whenever the gather over a weak edge yields a value, that value is the
\* one the source produced last on that port before the gather (a gather
\* during which the source did not broadcast), also when the source broadcast
\* several times since the consumer's previous invocation.
C37_WeakValueIsLatest ==
  (call.stage = "idle" /\ call.got # 0 /\ call.since = call.at) => call.got = call.at


\* C38: all values returned by one get_outputs call are produced by one and
\* the same invocation of the end node.
C38_OneInvocationPerCall ==
  (call.stage = "idle" /\ call.calls > 0) =>
    \A j \in 1..Len(call.out) : call.out[j] = call.out[1]


\* C39: once shutdown() of an instance has returned and the supervisor of
\* every instance whose closed flag is set has done its work, every child
\* registered in a running-complex map below the instance is shut down too:
\* its closed flag is set and its node tasks no longer run.
C39_ShutdownReachesChildren ==
  (/\ call.shut = "returned"
   /\ \A i \in Scopes : call.closed[i] => call.sup[i] = "returned") =>
    \A c \in Scopes \ {1} :
      c \in call.complex[parent(c)] => (call.closed[c] /\ call.tasks[c] # "running")


\* C40: a BinOp or Neg applied to Integer operands never panics: it returns an
\* Integer or Float result or an arithmetic error, and DivByZero exactly when
\* the operation is Div or Mod and the divisor is zero.
C40_IntegerOpsNeverPanic ==
  call.stage = "done" =>
    /\ call.result.kind \in {"Integer", "Float", "DivByZero"}
    /\ (call.result.kind = "DivByZero") <=> (call.op \in {"Div", "Mod"} /\ call.y = 0)

====
